---- MODULE Spec2Model ----
(***************************************************************************)
(* The savestate coordinator of libTAS (src/src/program/SaveState.cpp):    *)
(* SaveState::save, SaveState::load and SaveState::postLoad, with the      *)
(* context, the live movie, the slot's files on disk and the messages      *)
(* exchanged with the game.                                                *)
(*                                                                         *)
(* The second part is the interceptor of the dynamic loader (dlhook.cpp,   *)
(* lines 283-521 of the same file): dlopen with its deny-list, the set of  *)
(* loaded libraries and the hook-installation routines; dlsym with its     *)
(* recursion counter, its special cases and find_sym, one action per step  *)
(* between two calls of a resolver or two accesses to recurs_count.        *)
(*                                                                         *)
(* Every handler is one action.  The messages it sends and receives, and   *)
(* the files it writes, are recorded in order in io, which holds the       *)
(* trace of the last handler only.  Strings are sequences of string parts  *)
(* (the code builds them by concatenation).                                *)
(***************************************************************************)
EXTENDS Integers, Sequences, FiniteSets, TLC

VARIABLES context, movie, ss, disk, io, last, pending
\* The dynamic-loader hooks (dlhook.cpp, lines 283-521 of SaveState.cpp):
\* the execution mode, the cached real entry points, the set of loaded
\* libraries, the runs of each hook-installation routine, and the trace and
\* result of the last intercepted call.
VARIABLES native, orig, library_set, hook_calls, dlio, dlret
\* dlsym (lines 416-519): its two function-static variables, the calls in
\* progress of each thread (innermost last), what the detection triggers
\* have done, and the record of the call that returned last.
VARIABLES recurs_count, safe, stack, detected, done

ssvars == <<context, movie, ss, disk, io, last, pending>>
dsvars == <<recurs_count, safe, stack, detected, done>>
dlvars == <<native, orig, library_set, hook_calls, dlio, dlret,
            recurs_count, safe, stack, detected, done>>
vars == <<context, movie, ss, disk, io, last, pending,
          native, orig, library_set, hook_calls, dlio, dlret,
          recurs_count, safe, stack, detected, done>>

(***************************** bounds ***************************************)
\* Longest live movie the edits build.
MaxLen == 1
\* The frame counter runs to MaxFrame.
MaxFrame == 1
\* Cap of the rerecord counter.
MaxRerecord == 1
\* Cap of the runs counted for one hook-installation routine.
MaxHookCalls == 2
\* Deepest nesting of dlsym calls of one thread.
MaxDepth == 3
\* With two threads, dlsym is entered only while recurs_count is within
\* MaxDrift of 0.
MaxDrift == 1
\* Longest movies, and largest frame bound, the prefix test is tried on.
MaxPrefixLen == 3

\* The inputs of a frame.
Inputs == {"U", "D"}
\* Savestate slots, and whether the slot is the backtrack slot.
Slots == {2}
Backtrack == {FALSE}
\* context->config.sc.initial_time_sec / initial_time_nsec, fixed at launch.
initial_time == <<0, 750000000>>

(************************** program constants ******************************)
NO_RECORDING == "NO_RECORDING"
RECORDING_WRITE == "RECORDING_WRITE"
RECORDING_READ == "RECORDING_READ"
RecordingModes == {NO_RECORDING, RECORDING_WRITE, RECORDING_READ}

MSGN_SAVESTATE_INDEX == "MSGN_SAVESTATE_INDEX"
MSGN_SAVESTATE_PATH == "MSGN_SAVESTATE_PATH"
MSGN_OSD_MSG == "MSGN_OSD_MSG"
MSGN_SAVESTATE == "MSGN_SAVESTATE"
MSGN_LOADSTATE == "MSGN_LOADSTATE"
MSGN_CONFIG == "MSGN_CONFIG"
MSGN_EXPOSE == "MSGN_EXPOSE"
MSGB_SAVING_SUCCEEDED == "MSGB_SAVING_SUCCEEDED"
MSGB_LOADING_SUCCEEDED == "MSGB_LOADING_SUCCEEDED"
MSGB_FRAMECOUNT_TIME == "MSGB_FRAMECOUNT_TIME"
\* Any other message of the game: the code only compares for (in)equality.
MSGB_OTHER == "MSGB_OTHER"
\* What the game may answer to a save, to a load, and after a loaded state.
SaveReplies == {MSGB_SAVING_SUCCEEDED, MSGB_OTHER}
LoadReplies == {MSGB_LOADING_SUCCEEDED, MSGB_FRAMECOUNT_TIME, MSGB_OTHER}
ReportMessages == {MSGB_FRAMECOUNT_TIME, MSGB_OTHER}

\* The outcomes returned to the caller.  A return value is a string here:
\* "0", one of the E... codes, or the message code passed through.
RET_ZERO == "0"
ENOSTATE == "ENOSTATE"
ENOSTATEMOVIEPREFIX == "ENOSTATEMOVIEPREFIX"
ENOMOVIE == "ENOMOVIE"
EINPUTMISMATCH == "EINPUTMISMATCH"
ENOLOAD == "ENOLOAD"

Billion == 1000000000

(****************************** helpers ************************************)
Min2(a, b) == IF a < b THEN a ELSE b

\* All input sequences of length at most n.
SeqsUpTo(n) == UNION {[1..k -> Inputs] : k \in 0..n}

\* The game's clock is deterministic: the time of frame fc is the initial
\* time plus fc frames of half a second, as (seconds, nanoseconds).
FrameTime(fc) ==
  LET n == initial_time[2] + fc * 500000000
  IN <<initial_time[1] + (n \div Billion), n % Billion>>

\* std::to_string
to_string(n) == ToString(n)

(************************ the trace of a handler ***************************)
Ev(e, m, t, n) == [ev |-> e, msg |-> m, text |-> t, num |-> n]
\* sendMessage(m)
SendMessage(m) == Ev("sendMessage", m, <<>>, 0)
\* sendData(&id, sizeof(int))
SendId(n) == Ev("sendData", "id", <<>>, n)
\* sendData(&context->config.sc, sizeof(SharedConfig))
SendConfig == Ev("sendData", "SharedConfig", <<>>, 0)
\* sendString(s)
SendString(s) == Ev("sendString", "", s, 0)
\* receiveMessage() returning m
ReceiveMessage(m) == Ev("receiveMessage", m, <<>>, 0)
\* receiveData(&x, sizeof(uint64_t)) reading n into field x
ReceiveData(x, n) == Ev("receiveData", x, <<>>, n)
\* movie.saveMovie(p, n)
SaveMovieEv(p, n) == Ev("saveMovie", "", p, n)
\* loadInputs(p) on the movie named who
LoadInputsEv(who, p) == Ev("loadInputs", who, p, 0)
\* std::ofstream o(p); o.close();
CreateFile(p) == Ev("ofstream", "", p, 0)

\* Whether the trace t holds sendMessage(m).
HasSent(t, m) == \E i \in 1..Len(t) : t[i] = SendMessage(m)

(**************************** MovieFile ************************************)
(* MovieFile.cpp is not among the sources: these three operations follow   *)
(* the specification (sections 3, 4.2 and 4.3).                            *)

\* Variant: the comparison stops after the first frame.
isPrefix_FirstFrameOnly(receiver, m, frame) ==
  \A i \in 1..Min2(1, Min2(frame, Min2(Len(receiver), Len(m)))) : receiver[i] = m[i]

\* receiver.isPrefix(m, frame): the recorded inputs of the two movies agree on
\* every frame index below min(frame, len(receiver), len(m)).
isPrefix(receiver, m, frame) ==
  \A i \in 1..Min2(frame, Min2(Len(receiver), Len(m))) : receiver[i] = m[i]

\* receiver.isPrefix(m): m is a prefix of receiver over m's length.
isPrefixAll(receiver, m) == isPrefix(receiver, m, Len(m))

\* A file that is not there, and a file that cannot be read as a movie.
NoFile == [kind |-> "none", input_list |-> <<>>, framecount |-> 0]
BadFile == [kind |-> "bad", input_list |-> <<>>, framecount |-> 0]

\* movie.saveMovie(path, framecount): the file holds the input history up to
\* the save point and is stamped with the frame count.
saveMovie(inputs, frame) ==
  [kind |-> "movie",
   input_list |-> SubSeq(inputs, 1, Min2(frame, Len(inputs))),
   framecount |-> frame]

\* loadInputs(path): 0 and the file's inputs, or a negative code when the
\* file is missing or unreadable (the inputs of the receiver are then kept).
loadInputs(file, old) ==
  IF file.kind = "movie" THEN [ret |-> 0, input_list |-> file.input_list]
  ELSE [ret |-> -1, input_list |-> old]

(**************************** SaveState ************************************)
\* access(p, F_OK) == 0 for each of the slot's files.
AccessPagemap == disk.pagemap
AccessPages == disk.pages
AccessMovie == disk.moviefile.kind # "none"

\* Variant: the paths are built from the context on every call.
buildPaths_Recomputed(s) ==
  LET p == <<context.savestatedir, "/", context.gamename, ".state", to_string(s.id)>>
  IN [s EXCEPT
        !.path = p,
        !.pagemap_path = p \o <<".pm">>,
        !.pages_path = p \o <<".p">>,
        !.movie_path =
           <<context.savestatedir, "/", context.gamename, ".movie", to_string(s.id), ".ltm">>]

\* SaveState::buildPaths: each path is built when empty and kept otherwise.
buildPaths(s) ==
  LET p == IF s.path = <<>>
           THEN <<context.savestatedir, "/", context.gamename, ".state", to_string(s.id)>>
           ELSE s.path
  IN [s EXCEPT
        !.path = p,
        !.pagemap_path = IF s.pagemap_path = <<>> THEN p \o <<".pm">> ELSE s.pagemap_path,
        !.pages_path = IF s.pages_path = <<>> THEN p \o <<".p">> ELSE s.pages_path,
        !.movie_path =
           IF s.movie_path = <<>>
           THEN <<context.savestatedir, "/", context.gamename, ".movie", to_string(s.id), ".ltm">>
           ELSE s.movie_path]

\* SaveState::buildMessages: each message is built when empty and kept otherwise.
buildMessages(s) ==
  [s EXCEPT
     !.saving_msg =
        IF s.saving_msg # <<>> THEN s.saving_msg
        ELSE IF s.is_backtrack THEN <<"Saving backtrack state">>
        ELSE <<"Saving state ", to_string(s.id)>>,
     !.no_state_msg =
        IF s.no_state_msg # <<>> THEN s.no_state_msg
        ELSE <<"No savestate in slot ", to_string(s.id)>>,
     !.loading_msg =
        IF s.loading_msg # <<>> THEN s.loading_msg
        ELSE IF s.is_backtrack THEN <<"Loading backtrack state">>
        ELSE <<"Loading state ", to_string(s.id)>>,
     !.loaded_msg =
        IF s.loaded_msg # <<>> THEN s.loaded_msg
        ELSE IF s.is_backtrack THEN <<"Backtrack state loaded">>
        ELSE <<"State ", to_string(s.id), " loaded">>]

\* if (osd & OSD_MESSAGES) { sendMessage(MSGN_OSD_MSG); sendString(text); }
OsdMessage(text) ==
  IF context.osd_messages THEN <<SendMessage(MSGN_OSD_MSG), SendString(text)>> ELSE <<>>

(************************ the loader hooks at start *************************)
\* The families of runtime components dlopen reacts to.
HookFamilies == {"wined3d", "user32", "kernel32"}

\* The threads of the game that call dlsym.
Threads == {1, 2}
\* No call of dlsym has returned yet (or one is starting).
NoCall ==
  [valid |-> FALSE, thread |-> 0, handle |-> 0, name |-> "", level |-> 0,
   native0 |-> FALSE, depth0 |-> 0, inner0 |-> FALSE, ret |-> <<>>,
   trace |-> <<>>, native_exit |-> FALSE]

\* Before the first intercepted call: nothing is resolved (DEFINE_ORIG_POINTER
\* leaves null pointers), the library set is empty, no routine has run.
DlStart ==
  /\ native = FALSE
  /\ orig = [dlopen |-> FALSE, dlsym |-> FALSE]
  /\ library_set = <<>>
  /\ hook_calls = [f \in HookFamilies |-> 0]
  /\ dlio = <<>>
  /\ dlret = 0
  /\ recurs_count = 0
  /\ safe = FALSE
  /\ stack = [t \in Threads |-> <<>>]
  /\ detected = [unity |-> FALSE, ntdll |-> 0]
  /\ done = NoCall

(******************************* Init **************************************)
\* A fresh SaveState for a slot, a context as configured at launch, a live
\* movie as loaded (or empty), and no file of the slot on disk.
Init ==
  /\ context \in [recording : RecordingModes,
                  ss_ram : BOOLEAN,
                  osd_messages : BOOLEAN,
                  savestatedir : {"dir"},
                  gamename : {"game"},
                  framecount : {0},
                  current_time_sec : {FrameTime(0)[1]},
                  current_time_nsec : {FrameTime(0)[2]},
                  movie_time_sec : {0},
                  movie_time_nsec : {0},
                  movie_framecount : {0},
                  rerecord_count : {0}]
  /\ movie \in [input_list : SeqsUpTo(MaxLen), modifiedSinceLastStateLoad : {FALSE}]
  /\ ss \in [id : Slots,
             is_backtrack : Backtrack,
             path : {<<>>}, pagemap_path : {<<>>}, pages_path : {<<>>},
             movie_path : {<<>>},
             saving_msg : {<<>>}, no_state_msg : {<<>>},
             loading_msg : {<<>>}, loaded_msg : {<<>>},
             framecount : {0}]
  /\ disk = [pagemap |-> FALSE, pages |-> FALSE, moviefile |-> NoFile]
  /\ io = <<>>
  /\ last = [op |-> "init", branch |-> FALSE, ret |-> RET_ZERO]
  /\ pending = FALSE
  /\ DlStart

(******************************* save **************************************)
\* Variant: the movie is saved after the request is sent.
SaveTrace_MovieAfterRequest(s, reply) ==
  <<SendMessage(MSGN_SAVESTATE_INDEX), SendId(s.id)>>
  \o (IF ~context.ss_ram
      THEN <<SendMessage(MSGN_SAVESTATE_PATH), SendString(s.path)>>
      ELSE <<CreateFile(s.pagemap_path), CreateFile(s.pages_path)>>)
  \o OsdMessage(s.saving_msg)
  \o <<SendMessage(MSGN_SAVESTATE)>>
  \o (IF context.recording # NO_RECORDING
      THEN <<SaveMovieEv(s.movie_path, context.framecount)>> ELSE <<>>)
  \o <<ReceiveMessage(reply)>>

\* Variant: the path is sent whatever the savestate settings.
SaveTrace_PathInRam(s, reply) ==
  (IF context.recording # NO_RECORDING
   THEN <<SaveMovieEv(s.movie_path, context.framecount)>> ELSE <<>>)
  \o <<SendMessage(MSGN_SAVESTATE_INDEX), SendId(s.id)>>
  \o <<SendMessage(MSGN_SAVESTATE_PATH), SendString(s.path)>>
  \o (IF ~context.ss_ram
      THEN <<>>
      ELSE <<CreateFile(s.pagemap_path), CreateFile(s.pages_path)>>)
  \o OsdMessage(s.saving_msg)
  \o <<SendMessage(MSGN_SAVESTATE), ReceiveMessage(reply)>>

\* Variant: the on-screen message is sent before the path.
SaveTrace_OsdBeforePath(s, reply) ==
  (IF context.recording # NO_RECORDING
   THEN <<SaveMovieEv(s.movie_path, context.framecount)>> ELSE <<>>)
  \o <<SendMessage(MSGN_SAVESTATE_INDEX), SendId(s.id)>>
  \o OsdMessage(s.saving_msg)
  \o (IF ~context.ss_ram
      THEN <<SendMessage(MSGN_SAVESTATE_PATH), SendString(s.path)>>
      ELSE <<CreateFile(s.pagemap_path), CreateFile(s.pages_path)>>)
  \o <<SendMessage(MSGN_SAVESTATE), ReceiveMessage(reply)>>

\* The trace of SaveState::save for the built savestate s and the reply.
SaveTrace(s, reply) ==
  (IF context.recording # NO_RECORDING
   THEN <<SaveMovieEv(s.movie_path, context.framecount)>> ELSE <<>>)
  \o <<SendMessage(MSGN_SAVESTATE_INDEX), SendId(s.id)>>
  \o (IF ~context.ss_ram
      THEN <<SendMessage(MSGN_SAVESTATE_PATH), SendString(s.path)>>
      ELSE <<CreateFile(s.pagemap_path), CreateFile(s.pages_path)>>)
  \o OsdMessage(s.saving_msg)
  \o <<SendMessage(MSGN_SAVESTATE), ReceiveMessage(reply)>>

\* Variant: the save writes no file of the slot.
SaveDisk_Untouched == disk

\* The slot's files after SaveState::save.
SaveDisk ==
  [pagemap |-> disk.pagemap \/ context.ss_ram,
   pages |-> disk.pages \/ context.ss_ram,
   moviefile |-> IF context.recording # NO_RECORDING
                 THEN saveMovie(movie.input_list, context.framecount)
                 ELSE disk.moviefile]

\* Variant: the frame count is set whatever the reply.
SaveFramecount_Always(reply) == context.framecount

\* Lines 132-134: the savestate's frame count after the reply.
SaveFramecount(reply) ==
  IF reply = MSGB_SAVING_SUCCEEDED THEN context.framecount ELSE ss.framecount

\* int SaveState::save(Context* context, MovieFile& movie), the game
\* answering reply.
Save(reply) ==
  /\ ~pending
  /\ LET s == buildMessages(buildPaths(ss)) IN
       /\ io' = SaveTrace(s, reply)
       /\ disk' = SaveDisk
       /\ ss' = [s EXCEPT !.framecount = SaveFramecount(reply)]
       /\ last' = [op |-> "save", branch |-> FALSE, ret |-> reply]
  /\ UNCHANGED <<context, movie, pending>>
  /\ UNCHANGED dlvars

(******************************* load **************************************)
\* Variant: the recording mode is not looked at before the movie fallback.
LoadNoState_AnyMode(s) ==
  LET tryMovie == AccessMovie
      saved == loadInputs(disk.moviefile, <<>>)
      t == IF tryMovie THEN <<LoadInputsEv("savedmovie", s.movie_path)>> ELSE <<>>
  IN IF tryMovie /\ saved.ret = 0
        /\ isPrefix(saved.input_list, movie.input_list, context.framecount)
     THEN [ret |-> ENOSTATEMOVIEPREFIX, trace |-> t]
     ELSE [ret |-> ENOSTATE, trace |-> t \o OsdMessage(s.no_state_msg)]

\* Variant: the movie fallback is never offered.
LoadNoState_NoFallback(s) ==
  [ret |-> ENOSTATE, trace |-> OsdMessage(s.no_state_msg)]

\* Lines 148-180: the slot has no snapshot.  MovieFile savedmovie(context);
\* savedmovie.loadInputs(movie_path); savedmovie.isPrefix(movie, framecount).
LoadNoState(s) ==
  LET tryMovie == context.recording # NO_RECORDING /\ AccessMovie
      saved == loadInputs(disk.moviefile, <<>>)
      t == IF tryMovie THEN <<LoadInputsEv("savedmovie", s.movie_path)>> ELSE <<>>
  IN IF tryMovie /\ saved.ret = 0
        /\ isPrefix(saved.input_list, movie.input_list, context.framecount)
     THEN [ret |-> ENOSTATEMOVIEPREFIX, trace |-> t]
     ELSE [ret |-> ENOSTATE, trace |-> t \o OsdMessage(s.no_state_msg)]

\* Variant: the negation of the prefix test is lost.
LoadPrefixCheck_NegationLost(s, branch) ==
  IF context.recording = RECORDING_READ /\ ~branch
  THEN LET saved == loadInputs(disk.moviefile, <<>>)
           t == <<LoadInputsEv("savedmovie", s.movie_path)>>
       IN IF saved.ret < 0
          THEN [ret |-> ENOMOVIE, trace |-> t]
          ELSE IF isPrefixAll(movie.input_list, saved.input_list)
          THEN [ret |-> EINPUTMISMATCH,
                trace |-> t \o OsdMessage(<<"Savestate inputs mismatch">>)]
          ELSE [ret |-> RET_ZERO, trace |-> t]
  ELSE [ret |-> RET_ZERO, trace |-> <<>>]

\* Variant: the prefix test is bounded by the current frame count.
LoadPrefixCheck_AtFrame(s, branch) ==
  IF context.recording = RECORDING_READ /\ ~branch
  THEN LET saved == loadInputs(disk.moviefile, <<>>)
           t == <<LoadInputsEv("savedmovie", s.movie_path)>>
       IN IF saved.ret < 0
          THEN [ret |-> ENOMOVIE, trace |-> t]
          ELSE IF ~isPrefix(movie.input_list, saved.input_list, context.framecount)
          THEN [ret |-> EINPUTMISMATCH,
                trace |-> t \o OsdMessage(<<"Savestate inputs mismatch">>)]
          ELSE [ret |-> RET_ZERO, trace |-> t]
  ELSE [ret |-> RET_ZERO, trace |-> <<>>]

\* Variant: the check is made on branch loads too.
LoadPrefixCheck_IgnoresBranch(s, branch) ==
  IF context.recording = RECORDING_READ
  THEN LET saved == loadInputs(disk.moviefile, <<>>)
           t == <<LoadInputsEv("savedmovie", s.movie_path)>>
       IN IF saved.ret < 0
          THEN [ret |-> ENOMOVIE, trace |-> t]
          ELSE IF ~isPrefixAll(movie.input_list, saved.input_list)
          THEN [ret |-> EINPUTMISMATCH,
                trace |-> t \o OsdMessage(<<"Savestate inputs mismatch">>)]
          ELSE [ret |-> RET_ZERO, trace |-> t]
  ELSE [ret |-> RET_ZERO, trace |-> <<>>]

\* Variant: the result of loadInputs is not tested.
LoadPrefixCheck_RetUntested(s, branch) ==
  IF context.recording = RECORDING_READ /\ ~branch
  THEN LET saved == loadInputs(disk.moviefile, <<>>)
           t == <<LoadInputsEv("savedmovie", s.movie_path)>>
       IN IF ~isPrefixAll(movie.input_list, saved.input_list)
          THEN [ret |-> EINPUTMISMATCH,
                trace |-> t \o OsdMessage(<<"Savestate inputs mismatch">>)]
          ELSE [ret |-> RET_ZERO, trace |-> t]
  ELSE [ret |-> RET_ZERO, trace |-> <<>>]

\* Lines 188-206: the check of a load in read mode that is no branch.
\* movie.isPrefix(savedmovie) on the live movie.
LoadPrefixCheck(s, branch) ==
  IF context.recording = RECORDING_READ /\ ~branch
  THEN LET saved == loadInputs(disk.moviefile, <<>>)
           t == <<LoadInputsEv("savedmovie", s.movie_path)>>
       IN IF saved.ret < 0
          THEN [ret |-> ENOMOVIE, trace |-> t]
          ELSE IF ~isPrefixAll(movie.input_list, saved.input_list)
          THEN [ret |-> EINPUTMISMATCH,
                trace |-> t \o OsdMessage(<<"Savestate inputs mismatch">>)]
          ELSE [ret |-> RET_ZERO, trace |-> t]
  ELSE [ret |-> RET_ZERO, trace |-> <<>>]

\* Variant: the load request is sent before the movie check.
LoadOutcome_RequestBeforeCheck(s, branch) ==
  LET index == <<SendMessage(MSGN_SAVESTATE_INDEX), SendId(s.id)>> IN
  IF ~AccessPagemap \/ ~AccessPages
  THEN LET r == LoadNoState(s) IN [ret |-> r.ret, trace |-> index \o r.trace]
  ELSE LET c == LoadPrefixCheck(s, branch)
       IN [ret |-> c.ret,
           trace |-> index \o <<SendMessage(MSGN_LOADSTATE)>> \o c.trace]

\* The return value and the trace of SaveState::load for the built savestate s.
LoadOutcome(s, branch) ==
  LET index == <<SendMessage(MSGN_SAVESTATE_INDEX), SendId(s.id)>> IN
  IF ~AccessPagemap \/ ~AccessPages
  THEN LET r == LoadNoState(s) IN [ret |-> r.ret, trace |-> index \o r.trace]
  ELSE LET sendPath == IF ~context.ss_ram
                       THEN <<SendMessage(MSGN_SAVESTATE_PATH), SendString(s.path)>>
                       ELSE <<>>
           c == LoadPrefixCheck(s, branch)
       IN IF c.ret # RET_ZERO
          THEN [ret |-> c.ret, trace |-> index \o sendPath \o c.trace]
          ELSE [ret |-> RET_ZERO,
                trace |-> index \o sendPath \o c.trace \o OsdMessage(s.loading_msg)
                          \o <<SendMessage(MSGN_LOADSTATE)>>]

\* int SaveState::load(Context* context, MovieFile& movie, bool branch).
\* The game answers a MSGN_LOADSTATE, and nothing else: its reply is pending
\* once that message is sent.
Load(branch) ==
  /\ ~pending
  /\ LET s == buildMessages(buildPaths(ss))
         r == LoadOutcome(s, branch)
     IN /\ ss' = s
        /\ io' = r.trace
        /\ last' = [op |-> "load", branch |-> branch, ret |-> r.ret]
        /\ pending' = HasSent(r.trace, MSGN_LOADSTATE)
  /\ UNCHANGED <<context, movie, disk>>
  /\ UNCHANGED dlvars

(***************************** postLoad ************************************)
\* Variant: every first message counts as a loaded state.
DidLoad_Always(message) == TRUE

\* bool didLoad = message == MSGB_LOADING_SUCCEEDED;
DidLoad(message) == message = MSGB_LOADING_SUCCEEDED

\* Variant: the inputs are reloaded in write mode only, branch or not.
PostLoadSuccess_ReloadInWriteOnly(branch, m2) ==
  LET reload == context.recording = RECORDING_WRITE
      modified == movie.modifiedSinceLastStateLoad
  IN [trace |-> <<SendMessage(MSGN_CONFIG), SendConfig>>
                \o (IF reload THEN <<LoadInputsEv("movie", ss.movie_path)>> ELSE <<>>)
                \o <<ReceiveMessage(m2)>>,
      input_list |-> IF reload
                     THEN loadInputs(disk.moviefile, movie.input_list).input_list
                     ELSE movie.input_list,
      modified |-> IF modified THEN FALSE ELSE modified,
      rerecord_count |-> IF modified THEN context.rerecord_count + 1
                         ELSE context.rerecord_count]

\* Variant: every loaded state counts as a rerecord.
PostLoadSuccess_AlwaysCounts(branch, m2) ==
  LET reload == context.recording = RECORDING_WRITE \/ branch
      modified == movie.modifiedSinceLastStateLoad
  IN [trace |-> <<SendMessage(MSGN_CONFIG), SendConfig>>
                \o (IF reload THEN <<LoadInputsEv("movie", ss.movie_path)>> ELSE <<>>)
                \o <<ReceiveMessage(m2)>>,
      input_list |-> IF reload
                     THEN loadInputs(disk.moviefile, movie.input_list).input_list
                     ELSE movie.input_list,
      modified |-> FALSE,
      rerecord_count |-> context.rerecord_count + 1]

\* Variant: the rerecord is counted and the flag is left set.
PostLoadSuccess_KeepsFlag(branch, m2) ==
  LET reload == context.recording = RECORDING_WRITE \/ branch
      modified == movie.modifiedSinceLastStateLoad
  IN [trace |-> <<SendMessage(MSGN_CONFIG), SendConfig>>
                \o (IF reload THEN <<LoadInputsEv("movie", ss.movie_path)>> ELSE <<>>)
                \o <<ReceiveMessage(m2)>>,
      input_list |-> IF reload
                     THEN loadInputs(disk.moviefile, movie.input_list).input_list
                     ELSE movie.input_list,
      modified |-> modified,
      rerecord_count |-> IF modified THEN context.rerecord_count + 1
                         ELSE context.rerecord_count]

\* Lines 226-250: what SaveState::postLoad does once the first message is
\* MSGB_LOADING_SUCCEEDED, up to the second receiveMessage().
PostLoadSuccess(branch, m2) ==
  LET reload == context.recording = RECORDING_WRITE \/ branch
      modified == movie.modifiedSinceLastStateLoad
  IN [trace |-> <<SendMessage(MSGN_CONFIG), SendConfig>>
                \o (IF reload THEN <<LoadInputsEv("movie", ss.movie_path)>> ELSE <<>>)
                \o <<ReceiveMessage(m2)>>,
      input_list |-> IF reload
                     THEN loadInputs(disk.moviefile, movie.input_list).input_list
                     ELSE movie.input_list,
      modified |-> IF modified THEN FALSE ELSE modified,
      rerecord_count |-> IF modified THEN context.rerecord_count + 1
                         ELSE context.rerecord_count]

\* Variant: the two times of the report are read in the other order.
PostLoadReport_SwappedTimes(c, fc, t) ==
  LET c1 == [c EXCEPT !.framecount = fc,
                      !.current_time_sec = t[2],
                      !.current_time_nsec = t[1]]
      sec == t[2] - initial_time[1]
      nsec == t[1] - initial_time[2]
  IN IF c.recording = RECORDING_WRITE
     THEN [c1 EXCEPT !.movie_framecount = fc,
                     !.movie_time_sec = IF nsec < 0 THEN sec - 1 ELSE sec,
                     !.movie_time_nsec = IF nsec < 0 THEN nsec + Billion ELSE nsec]
     ELSE c1

\* Lines 258-269: the frame counter and the times read from the report, and
\* in write mode the movie's frame count and time.
PostLoadReport(c, fc, t) ==
  LET c1 == [c EXCEPT !.framecount = fc,
                      !.current_time_sec = t[1],
                      !.current_time_nsec = t[2]]
      sec == t[1] - initial_time[1]
      nsec == t[2] - initial_time[2]
  IN IF c.recording = RECORDING_WRITE
     THEN [c1 EXCEPT !.movie_framecount = fc,
                     !.movie_time_sec = IF nsec < 0 THEN sec - 1 ELSE sec,
                     !.movie_time_nsec = IF nsec < 0 THEN nsec + Billion ELSE nsec]
     ELSE c1

\* The trace of lines 258-276 for a report (fc, t).
PostLoadTail(didLoad, fc, t) ==
  <<ReceiveData("framecount", fc), ReceiveData("current_time_sec", t[1]),
    ReceiveData("current_time_nsec", t[2])>>
  \o (IF didLoad THEN OsdMessage(ss.loaded_msg) ELSE <<>>)
  \o <<SendMessage(MSGN_EXPOSE)>>

\* Variant: the report's type is not checked before the return value is chosen.
PostLoadRet_NoProtocolCheck(didLoad, message) ==
  IF didLoad THEN MSGB_LOADING_SUCCEEDED ELSE RET_ZERO

\* Variant: plain success whatever the game reported.
PostLoadRet_Zero(didLoad, message) ==
  IF message # MSGB_FRAMECOUNT_TIME THEN ENOLOAD ELSE RET_ZERO

\* The value SaveState::postLoad returns.
PostLoadRet(didLoad, message) ==
  IF message # MSGB_FRAMECOUNT_TIME THEN ENOLOAD
  ELSE IF didLoad THEN MSGB_LOADING_SUCCEEDED
  ELSE RET_ZERO

\* int SaveState::postLoad(Context* context, MovieFile& movie, bool branch):
\* the game sends m1, then m2 if the code reads a second message, then the
\* report (fc, t) if the code reads it.
PostLoad(branch, m1, m2, fc, t) ==
  /\ pending
  /\ m1 # MSGB_LOADING_SUCCEEDED => m2 = m1
  /\ m2 # MSGB_FRAMECOUNT_TIME => fc = 0
  /\ LET didLoad == DidLoad(m1)
         ok == PostLoadSuccess(branch, m2)
         message == IF didLoad THEN m2 ELSE m1
         head == <<ReceiveMessage(m1)>> \o (IF didLoad THEN ok.trace ELSE <<>>)
         c == IF didLoad THEN [context EXCEPT !.rerecord_count = ok.rerecord_count]
              ELSE context
     IN /\ c.rerecord_count <= MaxRerecord
        /\ movie' = IF didLoad
                    THEN [input_list |-> ok.input_list,
                          modifiedSinceLastStateLoad |-> ok.modified]
                    ELSE movie
        /\ IF message # MSGB_FRAMECOUNT_TIME
           THEN /\ context' = c
                /\ io' = head
           ELSE /\ context' = PostLoadReport(c, fc, t)
                /\ io' = head \o PostLoadTail(didLoad, fc, t)
        /\ last' = [op |-> "postLoad", branch |-> branch,
                    ret |-> PostLoadRet(didLoad, message)]
  /\ pending' = FALSE
  /\ UNCHANGED <<ss, disk>>
  /\ UNCHANGED dlvars

(*************************** the environment *******************************)
\* What happens between two savestate operations.  Each of these steps
\* clears the trace: io and last describe a handler only in the state that
\* handler left.
Idle == [op |-> "idle", branch |-> FALSE, ret |-> RET_ZERO]

\* MainWindow::slotMovieRecording: the operator picks a recording mode.
slotMovieRecording(mode) ==
  /\ ~pending
  /\ context.recording # mode
  /\ context' = [context EXCEPT !.recording = mode]
  /\ io' = <<>> /\ last' = Idle
  /\ UNCHANGED <<movie, ss, disk, pending>>
  /\ UNCHANGED dlvars

\* The frame loop runs one frame.
AdvanceFrame ==
  /\ ~pending
  /\ context.framecount < MaxFrame
  /\ context' = [context EXCEPT !.framecount = @ + 1,
                                 !.current_time_sec = FrameTime(context.framecount + 1)[1],
                                 !.current_time_nsec = FrameTime(context.framecount + 1)[2]]
  /\ io' = <<>> /\ last' = Idle
  /\ UNCHANGED <<movie, ss, disk, pending>>
  /\ UNCHANGED dlvars

\* The live movie is edited (input editor, or inputs recorded over).
EditMovie(new) ==
  /\ ~pending
  /\ new # movie.input_list
  /\ movie' = [input_list |-> new, modifiedSinceLastStateLoad |-> TRUE]
  /\ io' = <<>> /\ last' = Idle
  /\ UNCHANGED <<context, ss, disk, pending>>
  /\ UNCHANGED dlvars

\* The game dumps its memory into the slot's files after a save to disk
\* that it reported as succeeded.
GameWritesSnapshot ==
  /\ last.op = "save" /\ last.ret = MSGB_SAVING_SUCCEEDED
  /\ ~context.ss_ram
  /\ disk' = [disk EXCEPT !.pagemap = TRUE, !.pages = TRUE]
  /\ io' = <<>> /\ last' = Idle
  /\ UNCHANGED <<context, movie, ss, pending>>
  /\ UNCHANGED dlvars

\* A file of the slot is removed, or its movie file is damaged.
RemoveFile(f) ==
  /\ ~pending
  /\ \/ f = "pagemap" /\ disk.pagemap /\ disk' = [disk EXCEPT !.pagemap = FALSE]
     \/ f = "pages" /\ disk.pages /\ disk' = [disk EXCEPT !.pages = FALSE]
     \/ f = "movie" /\ disk.moviefile.kind # "none"
                    /\ disk' = [disk EXCEPT !.moviefile = NoFile]
     \/ f = "damage" /\ disk.moviefile.kind = "movie"
                     /\ disk' = [disk EXCEPT !.moviefile = BadFile]
  /\ io' = <<>> /\ last' = Idle
  /\ UNCHANGED <<context, movie, ss, pending>>
  /\ UNCHANGED dlvars

(******************************* Spec **************************************)
Next ==
  \/ \E reply \in SaveReplies : Save(reply)
  \/ \E branch \in BOOLEAN : Load(branch)
  \/ \E branch \in BOOLEAN, m1 \in LoadReplies, m2 \in LoadReplies,
        fc \in 0..MaxFrame : PostLoad(branch, m1, m2, fc, FrameTime(fc))
  \/ \E mode \in RecordingModes : slotMovieRecording(mode)
  \/ AdvanceFrame
  \/ \E new \in SeqsUpTo(MaxLen) : EditMovie(new)
  \/ GameWritesSnapshot
  \/ \E f \in {"pagemap", "pages", "movie", "damage"} : RemoveFile(f)

Spec == Init /\ [][Next]_vars

(****************** the slot's paths under a changing context ***************)
\* The savestate directory of the configuration, or the name of the game,
\* changes while the SaveState object lives on.
setConfig(dir, name) ==
  /\ ~pending
  /\ <<dir, name>> # <<context.savestatedir, context.gamename>>
  /\ context' = [context EXCEPT !.savestatedir = dir, !.gamename = name]
  /\ io' = <<>> /\ last' = Idle
  /\ UNCHANGED <<movie, ss, disk, pending>>
  /\ UNCHANGED dlvars

NextPaths ==
  \/ \E reply \in SaveReplies : Save(reply)
  \/ \E branch \in BOOLEAN : Load(branch)
  \/ \E branch \in BOOLEAN, m1 \in LoadReplies, m2 \in LoadReplies,
        fc \in 0..MaxFrame : PostLoad(branch, m1, m2, fc, FrameTime(fc))
  \/ GameWritesSnapshot
  \/ \E dir \in {"dir", "dir2"}, name \in {"game", "game2"} : setConfig(dir, name)

SpecPaths == Init /\ [][NextPaths]_vars

(***************** the scenario of a recorded slot *************************)
\* Slot 2 was saved in an earlier session with the movie [U,U,D,D] (the
\* slot's files stay on disk); the live movie is its extension by L.
ScenarioSlotMovie == <<"U", "U", "D", "D">>
ScenarioLiveMovie == <<"U", "U", "D", "D", "L">>

InitScenario ==
  /\ context \in [recording : RecordingModes,
                  ss_ram : BOOLEAN,
                  osd_messages : BOOLEAN,
                  savestatedir : {"dir"},
                  gamename : {"game"},
                  framecount : {0},
                  current_time_sec : {FrameTime(0)[1]},
                  current_time_nsec : {FrameTime(0)[2]},
                  movie_time_sec : {0},
                  movie_time_nsec : {0},
                  movie_framecount : {0},
                  rerecord_count : {0}]
  /\ movie = [input_list |-> ScenarioLiveMovie, modifiedSinceLastStateLoad |-> FALSE]
  /\ ss \in [id : {2},
             is_backtrack : Backtrack,
             path : {<<>>}, pagemap_path : {<<>>}, pages_path : {<<>>},
             movie_path : {<<>>},
             saving_msg : {<<>>}, no_state_msg : {<<>>},
             loading_msg : {<<>>}, loaded_msg : {<<>>},
             framecount : {0}]
  /\ disk = [pagemap |-> TRUE, pages |-> TRUE,
             moviefile |-> [kind |-> "movie", input_list |-> ScenarioSlotMovie,
                            framecount |-> Len(ScenarioSlotMovie)]]
  /\ io = <<>>
  /\ last = [op |-> "init", branch |-> FALSE, ret |-> RET_ZERO]
  /\ pending = FALSE
  /\ DlStart

\* The operations of the scenario: everything but the edits of the movie.
NextScenario ==
  \/ \E reply \in SaveReplies : Save(reply)
  \/ \E branch \in BOOLEAN : Load(branch)
  \/ \E branch \in BOOLEAN, m1 \in LoadReplies, m2 \in LoadReplies,
        fc \in 0..MaxFrame : PostLoad(branch, m1, m2, fc, FrameTime(fc))
  \/ \E mode \in RecordingModes : slotMovieRecording(mode)
  \/ AdvanceFrame
  \/ GameWritesSnapshot
  \/ \E f \in {"pagemap", "pages", "movie", "damage"} : RemoveFile(f)

SpecScenario == InitScenario /\ [][NextScenario]_vars

(******************** the prefix test on its own **************************)
\* A slot without snapshot files whose movie file holds any movie, any live
\* movie and any frame count, in playback mode: SaveState::load then applies
\* savedmovie.isPrefix(movie, context->framecount) (lines 164-171).
InitPrefix ==
  /\ \E fc \in 0..MaxPrefixLen :
       context = [recording |-> RECORDING_READ, ss_ram |-> FALSE,
                  osd_messages |-> FALSE,
                  savestatedir |-> "dir", gamename |-> "game", framecount |-> fc,
                  current_time_sec |-> FrameTime(0)[1],
                  current_time_nsec |-> FrameTime(0)[2],
                  movie_time_sec |-> 0, movie_time_nsec |-> 0,
                  movie_framecount |-> 0, rerecord_count |-> 0]
  /\ movie \in [input_list : SeqsUpTo(MaxPrefixLen), modifiedSinceLastStateLoad : {FALSE}]
  /\ ss = [id |-> 2, is_backtrack |-> FALSE,
           path |-> <<>>, pagemap_path |-> <<>>, pages_path |-> <<>>,
           movie_path |-> <<>>, saving_msg |-> <<>>, no_state_msg |-> <<>>,
           loading_msg |-> <<>>, loaded_msg |-> <<>>, framecount |-> 0]
  /\ \E saved \in SeqsUpTo(MaxPrefixLen) :
       disk = [pagemap |-> FALSE, pages |-> FALSE,
               moviefile |-> [kind |-> "movie", input_list |-> saved,
                              framecount |-> Len(saved)]]
  /\ io = <<>>
  /\ last = [op |-> "init", branch |-> FALSE, ret |-> RET_ZERO]
  /\ pending = FALSE
  /\ DlStart

NextPrefix == \E branch \in BOOLEAN : Load(branch)

SpecPrefix == InitPrefix /\ [][NextPrefix]_vars

(***************************************************************************)
(*                     dlopen (dlhook.cpp)                                 *)
(***************************************************************************)
(* A std::string is the sequence of its characters.                        *)

\* The characters of the paths, in the order of their codes (the order
\* std::set<std::string> sorts by).
Alphabet ==
  <<".", "/", "0", "1", "2", "3", "4", "5", "6", "7", "8", "9", "A", "B",
    "C", "D", "E", "F", "G", "H", "I", "J", "K", "L", "M", "N", "O", "P",
    "Q", "R", "S", "T", "U", "V", "W", "X", "Y", "Z", "_", "a", "b", "c",
    "d", "e", "f", "g", "h", "i", "j", "k", "l", "m", "n", "o", "p", "q",
    "r", "s", "t", "u", "v", "w", "x", "y", "z">>

\* The code of a character, as its rank in Alphabet.
Ord(c) == CHOOSE i \in 1..Len(Alphabet) : Alphabet[i] = c

\* std::string::operator< : lexicographic order.
RECURSIVE StrLess(_, _)
StrLess(a, b) ==
  IF b = <<>> THEN FALSE
  ELSE IF a = <<>> THEN TRUE
  ELSE IF Ord(Head(a)) # Ord(Head(b)) THEN Ord(Head(a)) < Ord(Head(b))
  ELSE StrLess(Tail(a), Tail(b))

\* std::string(hay).find(needle) != std::string::npos
Find(hay, needle) ==
  \E i \in 1..(Len(hay) - Len(needle) + 1) :
     SubSeq(hay, i, i + Len(needle) - 1) = needle

\* The string literals of dlopen.
STR_libpulse == <<"l", "i", "b", "p", "u", "l", "s", "e">>
STR_ScreenSelector ==
  <<"S", "c", "r", "e", "e", "n", "S", "e", "l", "e", "c", "t", "o", "r",
    ".", "s", "o">>
STR_wined3d == <<"w", "i", "n", "e", "d", "3", "d", ".", "d", "l", "l", ".", "s", "o">>
STR_user32 == <<"u", "s", "e", "r", "3", "2", ".", "d", "l", "l", ".", "s", "o">>
STR_kernel32 ==
  <<"k", "e", "r", "n", "e", "l", "3", "2", ".", "d", "l", "l", ".", "s",
    "o">>

\* A const char* argument: nullptr, or a string.
NullFile == [null |-> TRUE, str |-> <<>>]
File(str) == [null |-> FALSE, str |-> str]

\* The paths the game asks for.
PATH_pulse == <<"l", "i", "b", "p", "u", "l", "s", "e", ".", "s", "o", ".", "0">>
PATH_selector ==
  <<"x", "/", "S", "c", "r", "e", "e", "n", "S", "e", "l", "e", "c", "t",
    "o", "r", ".", "s", "o">>
PATH_wined3d == <<"w", "i", "n", "e", "d", "3", "d", ".", "d", "l", "l", ".", "s", "o">>
PATH_user32 == <<"w", "/", "u", "s", "e", "r", "3", "2", ".", "d", "l", "l", ".", "s", "o">>
PATH_kernel32 ==
  <<"k", "e", "r", "n", "e", "l", "3", "2", ".", "d", "l", "l", ".", "s",
    "o">>
PATH_foo == <<"l", "i", "b", "f", "o", "o", ".", "s", "o">>
\* The path dlsym itself loads (line 476).
PATH_libc == <<"l", "i", "b", "c", ".", "s", "o", ".", "6">>
DlPaths ==
  <<PATH_pulse, PATH_selector, PATH_wined3d, PATH_user32, PATH_kernel32, PATH_foo,
    PATH_libc>>
DlFiles == {NullFile} \cup {File(DlPaths[i]) : i \in 1..Len(DlPaths)}

\* The handle the real loader gives for a file it loads: one per library,
\* never null (null is 0).  dlopen(NULL) gives the handle of the main program.
HandleOf(file) ==
  IF file.null THEN 1
  ELSE 1 + (CHOOSE i \in 1..Len(DlPaths) : DlPaths[i] = file.str)

\* orig::dlopen(file, mode): the real loader finds the library (a handle) or
\* does not (null).
RealDlopen(file, found) == IF found THEN HandleOf(file) ELSE 0

\* The events of a dlopen call.
DlSymBootstrap(name) == Ev("_dl_sym", name, <<>>, 0)
OrigDlopen(file, result) ==
  Ev("orig::dlopen", IF file.null THEN "nullptr" ELSE "file", file.str, result)
LogBlocked(file) == Ev("debuglogstdio", "blocked access to library", file.str, 0)
LogCall(file) ==
  Ev("debuglogstdio", IF file.null THEN "call with file <NULL>" ELSE "call with file",
     file.str, 0)
AddLibEv(file) == Ev("add_lib", IF file.null THEN "nullptr" ELSE "file", file.str, 0)
HookEv(family) == Ev("hook", family, <<>>, 0)

\* Variant: library_set.insert without the search for an equal key.
set_insert_Duplicating(set, key) ==
  LET below == SelectSeq(set, LAMBDA e : StrLess(e, key))
      rest == SubSeq(set, Len(below) + 1, Len(set))
  IN below \o <<key>> \o rest

\* std::set<std::string>::insert(key): the set is kept as the sorted
\* sequence of its keys; a key equal to one of the set is not inserted.
set_insert(set, key) ==
  IF \E i \in 1..Len(set) : set[i] = key THEN set
  ELSE LET below == SelectSeq(set, LAMBDA e : StrLess(e, key))
           rest == SubSeq(set, Len(below) + 1, Len(set))
       IN below \o <<key>> \o rest

\* void add_lib(const char* library)
add_lib(set, library) ==
  IF ~library.null THEN set_insert(set, library.str) ELSE set

\* Variant: only the first entry of the deny-list is looked for.
DenyListed_PulseOnly(file) == ~file.null /\ Find(file.str, STR_libpulse)

\* Lines 361-369: the file names dlopen refuses.
DenyListed(file) ==
  \/ ~file.null /\ Find(file.str, STR_libpulse)
  \/ ~file.null /\ Find(file.str, STR_ScreenSelector)

\* Lines 378-391: the hook-installation routines dlopen runs for a result
\* and a file, in order.
DlopenHooks(file, result) ==
  (IF result # 0 /\ ~file.null /\ Find(file.str, STR_wined3d)
   THEN <<"wined3d">> ELSE <<>>)
  \o (IF result # 0 /\ ~file.null /\ Find(file.str, STR_user32)
      THEN <<"user32">> ELSE <<>>)
  \o (IF result # 0 /\ ~file.null /\ Find(file.str, STR_kernel32)
      THEN <<"kernel32">> ELSE <<>>)

\* Variant: native mode is not looked at.
DlopenNative_Ignored(isNative) == FALSE

\* if (GlobalState::isNative())
DlopenNative(isNative) == isNative

\* Variant: the file is recorded whatever the real loader returned.
DlopenIntercepted_AddsOnFailure(file, result) ==
  LET hooks == DlopenHooks(file, result)
  IN [trace |-> <<LogCall(file), OrigDlopen(file, result), AddLibEv(file)>>
                \o [i \in 1..Len(hooks) |-> HookEv(hooks[i])],
      ret |-> result,
      library_set |-> add_lib(library_set, file),
      hooks |-> hooks]

\* Lines 371-393: the call once it is neither native nor denied.
DlopenIntercepted(file, result) ==
  LET hooks == DlopenHooks(file, result)
  IN [trace |-> <<LogCall(file), OrigDlopen(file, result)>>
                \o (IF result # 0 THEN <<AddLibEv(file)>> ELSE <<>>)
                \o [i \in 1..Len(hooks) |-> HookEv(hooks[i])],
      ret |-> result,
      library_set |-> IF result # 0 THEN add_lib(library_set, file) ELSE library_set,
      hooks |-> hooks]

\* void *dlopen(const char *file, int mode) from line 357 on, the real loader
\* finding the file or not.
DlopenOutcome(isNative, file, found) ==
  IF DlopenNative(isNative)
  THEN [trace |-> <<OrigDlopen(file, RealDlopen(file, found))>>,
        ret |-> RealDlopen(file, found),
        library_set |-> library_set,
        hooks |-> <<>>]
  ELSE IF DenyListed(file)
  THEN [trace |-> <<LogBlocked(file)>>,
        ret |-> 0,
        library_set |-> library_set,
        hooks |-> <<>>]
  ELSE DlopenIntercepted(file, RealDlopen(file, found))

\* The runs of each routine after the routines of hooks have run.
CountHooks(calls, hooks) ==
  [f \in HookFamilies |->
     calls[f] + Cardinality({i \in 1..Len(hooks) : hooks[i] = f})]

\* void *dlopen(const char *file, int mode): the whole call.  Lines 350-355
\* resolve the real dlopen on the first call.
dlopen(file, found) ==
  LET r == DlopenOutcome(native, file, found)
      calls == CountHooks(hook_calls, r.hooks)
  IN /\ \A f \in HookFamilies : calls[f] <= MaxHookCalls
     /\ orig' = [orig EXCEPT !.dlopen = TRUE]
     /\ dlio' = (IF ~orig.dlopen THEN <<DlSymBootstrap("dlopen")>> ELSE <<>>) \o r.trace
     /\ dlret' = r.ret
     /\ library_set' = r.library_set
     /\ hook_calls' = calls
     /\ done' = NoCall
     /\ UNCHANGED native
     /\ UNCHANGED <<recurs_count, safe, stack, detected>>
     /\ UNCHANGED ssvars

\* GlobalState::setNative: the execution mode changes between two calls (a
\* caller inside a native section, or outside).
setNative(b) ==
  /\ native # b
  /\ \A t \in Threads : stack[t] = <<>>
  /\ native' = b
  /\ dlio' = <<>> /\ dlret' = 0
  /\ done' = NoCall
  /\ UNCHANGED <<orig, library_set, hook_calls>>
  /\ UNCHANGED <<recurs_count, safe, stack, detected>>
  /\ UNCHANGED ssvars

\* The loader hooks alone: the savestate coordinator stays as constructed.
InitDl ==
  /\ context = [recording |-> NO_RECORDING, ss_ram |-> FALSE, osd_messages |-> FALSE,
                savestatedir |-> "dir", gamename |-> "game", framecount |-> 0,
                current_time_sec |-> FrameTime(0)[1],
                current_time_nsec |-> FrameTime(0)[2],
                movie_time_sec |-> 0, movie_time_nsec |-> 0,
                movie_framecount |-> 0, rerecord_count |-> 0]
  /\ movie = [input_list |-> <<>>, modifiedSinceLastStateLoad |-> FALSE]
  /\ ss = [id |-> 2, is_backtrack |-> FALSE,
           path |-> <<>>, pagemap_path |-> <<>>, pages_path |-> <<>>,
           movie_path |-> <<>>, saving_msg |-> <<>>, no_state_msg |-> <<>>,
           loading_msg |-> <<>>, loaded_msg |-> <<>>, framecount |-> 0]
  /\ disk = [pagemap |-> FALSE, pages |-> FALSE, moviefile |-> NoFile]
  /\ io = <<>>
  /\ last = [op |-> "init", branch |-> FALSE, ret |-> RET_ZERO]
  /\ pending = FALSE
  /\ DlStart

NextDl ==
  \/ \E file \in DlFiles, found \in BOOLEAN : dlopen(file, found)
  \/ \E b \in BOOLEAN : setNative(b)

SpecDl == InitDl /\ [][NextDl]_vars

(***************************************************************************)
(*                      dlsym (dlhook.cpp)                                 *)
(***************************************************************************)
(* The symbols of the process.  An address is the pair of the object that  *)
(* defines the symbol and the symbol's name; the null pointer is the empty *)
(* sequence.                                                               *)

\* The pseudo-handles of <dlfcn.h>; a null handle is RTLD_DEFAULT.
RTLD_DEFAULT == 0
RTLD_NEXT == -1

Null == <<>>
Addr(obj, name) == <<obj, name>>

\* The objects of the process in the order of the default search scope:
\* libtas.so is preloaded, "dep" is a library libtas links to (the libpng of
\* the comment at lines 490-505), "game" is a library the game loaded.
Objects == <<"libtas", "dep", "libc", "game">>

\* The names libtas.so defines itself (its hooks), and the other objects'.
Defines(obj, name) ==
  CASE obj = "libtas" -> name \in {"dlopen", "dlsym", "localtime", "localtime_r",
                                   "calloc", "SDL_Init"}
    [] obj = "dep" -> name \in {"png_read", "tls_var"}
    [] obj = "libc" -> name \in {"dlopen", "dlsym", "localtime", "localtime_r", "calloc"}
    [] obj = "game" -> name \in {"SDL_Init", "png_read",
                                 "mono_unity_liveness_allocate_struct",
                                 "__wine_process_init"}

\* The names dlsym is asked for; nothing defines "missing".
SymNames ==
  {"dlopen", "dlsym", "localtime", "localtime_r", "calloc", "SDL_Init", "png_read",
   "tls_var", "mono_unity_liveness_allocate_struct", "__wine_process_init", "missing"}

\* A thread-local variable: the address dlsym gives for it lies in the
\* thread's storage, inside no loaded object.
Unmapped(addr) == addr # Null /\ addr[2] = "tls_var"

\* The handle of the game's library and of libc (as dlopen returns them).
GameHandle == HandleOf(File(PATH_foo))
LibcHandle == HandleOf(File(PATH_libc))

\* The first object at or after position i of the search order that defines
\* the name; null when none does.
FirstFrom(i, name) ==
  LET hits == {j \in i..Len(Objects) : Defines(Objects[j], name)}
  IN IF hits = {} THEN Null
     ELSE Addr(Objects[CHOOSE j \in hits : \A k \in hits : j <= k], name)

\* The real resolver, orig::dlsym(handle, name) called from libtas.so (lines
\* 398, 444, 477, 509): the default scope, the objects after the caller's, or
\* the object of the handle.  _dl_sym(handle, name, dlsym) gives the same
\* address (lines 441): its third argument names the same caller.
RealDlsym(handle, name) ==
  CASE handle = RTLD_DEFAULT -> FirstFrom(1, name)
    [] handle = RTLD_NEXT ->
         FirstFrom((CHOOSE i \in 1..Len(Objects) : Objects[i] = "libtas") + 1, name)
    [] handle = GameHandle -> IF Defines("game", name) THEN Addr("game", name) ELSE Null
    [] handle = LibcHandle -> IF Defines("libc", name) THEN Addr("libc", name) ELSE Null
    [] OTHER -> Null

\* dlerror() after the lookup: an error is pending when nothing was found.
Dlerror(addr) == addr = Null

\* The value of LIBTAS_LIBRARY_PATH, and dli_fname of each object.
LIBTAS_LIBRARY_PATH == <<"/", "t", "/", "l", "i", "b", "t", "a", "s", ".", "s", "o">>
Dli_fname(obj) ==
  CASE obj = "libtas" -> LIBTAS_LIBRARY_PATH
    [] obj = "dep" -> <<"/", "u", "/", "l", "i", "b", "p", "n", "g", ".", "s", "o">>
    [] obj = "libc" -> <<"/", "l", "/">> \o PATH_libc
    [] obj = "game" -> <<"/", "g", "/">> \o PATH_foo

\* dladdr(addr, &info): 0 when the address matches no shared object.
Dladdr(addr) ==
  IF addr = Null \/ Unmapped(addr) THEN [res |-> 0, dli_fname |-> <<>>]
  ELSE [res |-> 1, dli_fname |-> Dli_fname(addr[1])]

(* The events of a call of dlsym. *)
Dl_sym(handle, name) == Ev("_dl_sym", name, <<>>, handle)
OrigDlsym(handle, name) == Ev("orig::dlsym", name, <<>>, handle)
LogDlsym(name, isSafe) ==
  Ev("debuglogstdio", IF isSafe THEN "call with function (safe)" ELSE "call with function",
     <<name>>, 0)
LogRtldNext(name) == Ev("debuglogstdio", "dlsym called with RTLD_NEXT for symbol", <<name>>, 0)
GlobalNativeEv(what) == Ev("GlobalNative", what, <<>>, 0)
DlopenEv(file, result) == Ev("dlopen", "file", file.str, result)
DladdrEv(res) == Ev("dladdr", "", <<>>, res)
GetenvEv == Ev("NATIVECALL", "getenv", LIBTAS_LIBRARY_PATH, 0)
SetUnityEv == Ev("GameHacks::setUnity", "", <<>>, 0)
HookNtdllEv == Ev("hook_ntdll", "", <<>>, 0)
OwnAddressEv(name) == Ev("own address", name, <<>>, 0)

\* Lines 406-407: libpath ends with libtasstr.
FromLibtas(libpath, libtasstr) ==
  /\ Len(libpath) >= Len(libtasstr)
  /\ SubSeq(libpath, Len(libpath) - Len(libtasstr) + 1, Len(libpath)) = libtasstr

\* find_sym(name, original) after its lookup in the default scope returned
\* addr (lines 399-413): the address is dropped when the object it comes
\* from is libtas.so and the original is wanted, or is not libtas.so and the
\* hook is wanted.
find_sym(addr, original) ==
  IF ~Dlerror(addr)
  THEN LET info == Dladdr(addr)
       IN IF info.res # 0
          THEN LET fromLibtas == FromLibtas(info.dli_fname, LIBTAS_LIBRARY_PATH)
               IN [addr |-> IF original = fromLibtas THEN Null ELSE addr,
                   trace |-> <<DladdrEv(info.res), GetenvEv>>]
          ELSE [addr |-> addr, trace |-> <<DladdrEv(info.res)>>]
  ELSE [addr |-> addr, trace |-> <<>>]

(* A call of dlsym in progress: where it stands (pc), its arguments, the   *)
(* execution mode and the value of recurs_count it found on entry, its     *)
(* locals (tmp is the register of recurs_count++ and recurs_count--), the  *)
(* mode its GlobalNative object saved, the resolver call it waits in       *)
(* (site), the mode its caller's native section restores, and its events.  *)
(* inner0 notes that a call nested in this one found recurs_count = 0.     *)
Frame(handle, name, isNative, restore) ==
  [pc |-> "set_safe", handle |-> handle, name |-> name, native0 |-> isNative,
   depth0 |-> 0, inner0 |-> FALSE, tmp |-> 0, addr |-> Null, libc_handle |-> 0, gn |-> "none",
   site |-> "none", restore |-> restore, trace |-> <<>>]

ModeName(b) == IF b THEN "native" ELSE "intercepted"
\* The mode once a saved one (if any) is put back.
Restored(saved, current) == IF saved = "none" THEN current ELSE saved = "native"

Top(t) == stack[t][Len(stack[t])]
SetTop(t, f) == [stack EXCEPT ![t] = [@ EXCEPT ![Len(@)] = f]]
At(t, pc) == stack[t] # <<>> /\ Top(t).pc = pc

\* Lines 417-424: the first call resolves the real dlsym through _dl_sym.
DlsymBootstrapEv == Ev("_dl_sym", "dlsym", <<"orig::dlsym">>, RTLD_NEXT)
\* Variant: the real dlsym is looked up on every call.
DlsymBootstrap_Always == <<DlsymBootstrapEv>>

DlsymBootstrap == IF ~orig.dlsym THEN <<DlsymBootstrapEv>> ELSE <<>>

\* The game, or a library, calls dlsym(handle, name); the call starts with
\* the bootstrap of orig::dlsym.
Enter(t, handle, name) ==
  /\ stack[t] = <<>>
  /\ stack' = [stack EXCEPT ![t] =
                 <<[Frame(handle, name, native, "none") EXCEPT !.trace = DlsymBootstrap]>>]
  /\ orig' = [orig EXCEPT !.dlsym = TRUE]
  /\ done' = NoCall
  /\ UNCHANGED <<native, library_set, hook_calls, dlio, dlret>>
  /\ UNCHANGED <<recurs_count, safe, detected>>
  /\ UNCHANGED ssvars

\* The names a hooked function asks for when the real resolver calls it (the
\* allocator hooks look for the next definition, with RTLD_NEXT).
NestedNames == {"calloc"}

\* Lines 426-431: inside orig::dlsym the loader calls other hooked functions,
\* which call dlsym themselves, inside a native section of their own
\* (inNative) or not.
EnterNested(t, handle, name, inNative) ==
  /\ At(t, "in_orig")
  /\ Len(stack[t]) < MaxDepth
  /\ native' = (native \/ inNative)
  /\ stack' = [stack EXCEPT ![t] =
                 Append(@, Frame(handle, name, native',
                                 IF inNative THEN ModeName(native) ELSE "none"))]
  /\ done' = NoCall
  /\ UNCHANGED <<orig, library_set, hook_calls, dlio, dlret>>
  /\ UNCHANGED <<recurs_count, safe, detected>>
  /\ UNCHANGED ssvars

\* Variant: the depth is counted per thread (thread-local statics).
SetSafe_PerThread(t) ==
  /\ At(t, "set_safe")
  /\ safe' = (Len(stack[t]) > 1)
  /\ stack' = SetTop(t, [Top(t) EXCEPT !.pc = "inc_read", !.depth0 = Len(stack[t]) - 1])
  /\ UNCHANGED <<native, orig, library_set, hook_calls, dlio, dlret>>
  /\ UNCHANGED <<recurs_count, detected, done>>
  /\ UNCHANGED ssvars

\* Line 435: safe = (recurs_count > 0).
SetSafe(t) ==
  /\ At(t, "set_safe")
  /\ safe' = (recurs_count > 0)
  /\ stack' = SetTop(t, [Top(t) EXCEPT !.pc = "inc_read", !.depth0 = recurs_count])
  /\ UNCHANGED <<native, orig, library_set, hook_calls, dlio, dlret>>
  /\ UNCHANGED <<recurs_count, detected, done>>
  /\ UNCHANGED ssvars

\* Line 436, recurs_count++: the load of the static variable ...
IncRead(t) ==
  /\ At(t, "inc_read")
  /\ stack' = SetTop(t, [Top(t) EXCEPT !.pc = "inc_write", !.tmp = recurs_count])
  /\ UNCHANGED <<native, orig, library_set, hook_calls, dlio, dlret>>
  /\ UNCHANGED <<recurs_count, safe, detected, done>>
  /\ UNCHANGED ssvars

\* Variant: the increment is one indivisible operation.
IncWrite_Atomic(t) ==
  /\ At(t, "inc_write")
  /\ recurs_count' = recurs_count + 1
  /\ stack' = SetTop(t, [Top(t) EXCEPT !.pc = "dispatch"])
  /\ UNCHANGED <<native, orig, library_set, hook_calls, dlio, dlret>>
  /\ UNCHANGED <<safe, detected, done>>
  /\ UNCHANGED ssvars

\* ... and the store of the incremented value.
IncWrite(t) ==
  /\ At(t, "inc_write")
  /\ recurs_count' = Top(t).tmp + 1
  /\ stack' = SetTop(t, [Top(t) EXCEPT !.pc = "dispatch"])
  /\ UNCHANGED <<native, orig, library_set, hook_calls, dlio, dlret>>
  /\ UNCHANGED <<safe, detected, done>>
  /\ UNCHANGED ssvars

\* Variant: the native branch always calls orig::dlsym.
UsesDl_sym_Never(isNative, isSafe) == FALSE

\* Lines 438-441: _dl_sym is called in native mode when safe is set.
UsesDl_sym(isNative, isSafe) == isNative /\ isSafe

\* Variant: only "dlopen" is answered with the hook's own address.
IsDlName_OnlyDlopen(name) == name = "dlopen"

\* Lines 453 and 457: strcmp(name, "dlopen") == 0, strcmp(name, "dlsym") == 0.
IsDlName(name) == name \in {"dlopen", "dlsym"}

\* Variant: localtime_r is not among the remapped names.
IsLocaltime_NoReentrant(name) == name \in {"localtime", "localtime64", "localtime64_r"}

\* Lines 472-475.
IsLocaltime(name) ==
  name \in {"localtime", "localtime64", "localtime_r", "localtime64_r"}

\* Lines 438-507, from the test of the mode to the first call of a resolver:
\* the frame after it, the mode after it (a GlobalNative object is alive only
\* on the way to the reload of libc), and whether GameHacks::setUnity ran.
DlsymDispatch(f, isNative, isSafe) ==
  IF isNative
  THEN IF UsesDl_sym(isNative, isSafe)
       THEN [frame |-> [f EXCEPT !.pc = "dec_read",
                                 !.addr = RealDlsym(f.handle, f.name),
                                 !.trace = @ \o <<Dl_sym(f.handle, f.name)>>],
             native |-> isNative, unity |-> FALSE]
       ELSE [frame |-> [f EXCEPT !.pc = "in_orig", !.site = "native",
                                 !.trace = @ \o <<OrigDlsym(f.handle, f.name)>>],
             native |-> isNative, unity |-> FALSE]
  ELSE LET log == <<LogDlsym(f.name, isSafe)>>
       IN IF IsDlName(f.name)
          THEN [frame |-> [f EXCEPT !.pc = "dec_read",
                                    !.addr = Addr("libtas", f.name),
                                    !.trace = @ \o log \o <<OwnAddressEv(f.name)>>],
                native |-> isNative, unity |-> FALSE]
          ELSE IF f.handle = RTLD_NEXT /\ IsLocaltime(f.name)
          THEN [frame |-> [f EXCEPT !.pc = "remap", !.gn = ModeName(isNative),
                                    !.trace = @ \o log \o <<GlobalNativeEv("on")>>],
                native |-> TRUE, unity |-> FALSE]
          ELSE LET next == IF f.handle = RTLD_NEXT
                           THEN <<GlobalNativeEv("on"), LogRtldNext(f.name),
                                  GlobalNativeEv("off")>>
                           ELSE <<>>
                   isUnity == f.name = "mono_unity_liveness_allocate_struct"
                   unity == IF isUnity THEN <<SetUnityEv>> ELSE <<>>
               IN [frame |-> [f EXCEPT !.pc = "in_orig", !.site = "find_sym",
                                       !.trace = @ \o log \o next \o unity
                                                   \o <<OrigDlsym(RTLD_DEFAULT, f.name)>>],
                   native |-> isNative, unity |-> isUnity]

\* dlsym from line 438 to its first call of a resolver.
Dispatch(t) ==
  /\ At(t, "dispatch")
  /\ LET r == DlsymDispatch(Top(t), native, safe)
     IN /\ stack' = SetTop(t, r.frame)
        /\ native' = r.native
        /\ detected' = [detected EXCEPT !.unity = @ \/ r.unity]
  /\ UNCHANGED <<orig, library_set, hook_calls, dlio, dlret>>
  /\ UNCHANGED <<recurs_count, safe, done>>
  /\ UNCHANGED ssvars

\* Lines 476-477: dlopen("libc.so.6", RTLD_LAZY), the hook above, then the
\* call of orig::dlsym on the handle it returned.  libc is already loaded in
\* the process: the real loader finds it.
Remap(t) ==
  /\ At(t, "remap")
  /\ LET file == File(PATH_libc)
         r == DlopenOutcome(native, file, TRUE)
     IN /\ orig' = [orig EXCEPT !.dlopen = TRUE]
        /\ dlio' = (IF ~orig.dlopen THEN <<DlSymBootstrap("dlopen")>> ELSE <<>>) \o r.trace
        /\ dlret' = r.ret
        /\ library_set' = r.library_set
        /\ hook_calls' = CountHooks(hook_calls, r.hooks)
        /\ stack' = SetTop(t, [Top(t) EXCEPT
                                 !.pc = "in_orig", !.site = "remap", !.libc_handle = r.ret,
                                 !.trace = @ \o <<DlopenEv(file, r.ret),
                                                  OrigDlsym(r.ret, Top(t).name)>>])
  /\ UNCHANGED native
  /\ UNCHANGED <<recurs_count, safe, detected, done>>
  /\ UNCHANGED ssvars

\* Lines 512-515: the events of the wine trigger.
WineTail(name) == IF name = "__wine_process_init" THEN <<HookNtdllEv>> ELSE <<>>

\* What dlsym does when the resolver call it waits in returns, up to its
\* next resolver call or to recurs_count--.
\*   site "native"   line 444;  site "remap"  line 477;
\*   site "find_sym" line 398, then lines 399-413 and 508-515;
\*   site "handle"   line 509, then lines 512-515.
DlsymResume(f) ==
  CASE f.site = "native" ->
         [f EXCEPT !.pc = "dec_read", !.addr = RealDlsym(f.handle, f.name)]
    [] f.site = "remap" ->
         [f EXCEPT !.pc = "dec_read", !.addr = RealDlsym(f.libc_handle, f.name)]
    [] f.site = "find_sym" ->
         LET r == find_sym(RealDlsym(RTLD_DEFAULT, f.name), FALSE)
         IN IF r.addr = Null
            THEN [f EXCEPT !.site = "handle",
                           !.trace = @ \o r.trace \o <<OrigDlsym(f.handle, f.name)>>]
            ELSE [f EXCEPT !.pc = "dec_read", !.addr = r.addr,
                           !.trace = @ \o r.trace \o WineTail(f.name)]
    [] f.site = "handle" ->
         [f EXCEPT !.pc = "dec_read", !.addr = RealDlsym(f.handle, f.name),
                   !.trace = @ \o WineTail(f.name)]

\* orig::dlsym returns to dlsym.
OrigReturn(t) ==
  /\ At(t, "in_orig")
  /\ LET f == DlsymResume(Top(t))
         wine == f.pc = "dec_read" /\ Top(t).site \in {"find_sym", "handle"}
                 /\ WineTail(f.name) # <<>>
     IN /\ wine => detected.ntdll < MaxHookCalls
        /\ stack' = SetTop(t, f)
        /\ detected' = [detected EXCEPT !.ntdll = IF wine THEN @ + 1 ELSE @]
  /\ UNCHANGED <<native, orig, library_set, hook_calls, dlio, dlret>>
  /\ UNCHANGED <<recurs_count, safe, done>>
  /\ UNCHANGED ssvars

\* recurs_count-- (lines 446, 454, 458, 478, 517): the load ...
DecRead(t) ==
  /\ At(t, "dec_read")
  /\ stack' = SetTop(t, [Top(t) EXCEPT !.pc = "dec_write", !.tmp = recurs_count])
  /\ UNCHANGED <<native, orig, library_set, hook_calls, dlio, dlret>>
  /\ UNCHANGED <<recurs_count, safe, detected, done>>
  /\ UNCHANGED ssvars

\* Variant: the return after the reload of libc leaves the counter as it is.
Decrement_NotOnRemap(f) == IF f.site = "remap" THEN f.tmp ELSE f.tmp - 1

\* The value recurs_count-- stores, on each of the five returns.
Decrement(f) == f.tmp - 1

\* Variant: the GlobalNative object is not destroyed on the early return.
GnRelease_NotOnReturn(f, current) == current

\* ~GlobalNative at the return of line 479: the saved mode is put back.
GnRelease(f, current) == Restored(f.gn, current)

\* ... the store, and the return (lines 447, 455, 459, 479, 518).  The mode
\* dlsym leaves is the one after its GlobalNative object is destroyed; the
\* native section of a hooked caller, if any, ends after that.
Return(t) ==
  /\ At(t, "dec_write")
  /\ LET f == Top(t)
         exit == GnRelease(f, native)
     IN /\ recurs_count' = Decrement(f)
        /\ native' = Restored(f.restore, exit)
        /\ done' = [valid |-> TRUE, thread |-> t, handle |-> f.handle, name |-> f.name,
                    level |-> Len(stack[t]), native0 |-> f.native0, depth0 |-> f.depth0,
                    inner0 |-> f.inner0, ret |-> f.addr, trace |-> f.trace,
                    native_exit |-> exit]
        /\ stack' = [stack EXCEPT ![t] =
                       [i \in 1..(Len(@) - 1) |->
                          IF i = Len(@) - 1
                          THEN [@[i] EXCEPT !.inner0 = @ \/ f.inner0 \/ f.depth0 = 0]
                          ELSE @[i]]]
  /\ UNCHANGED <<orig, library_set, hook_calls, dlio, dlret>>
  /\ UNCHANGED <<safe, detected>>
  /\ UNCHANGED ssvars

\* dlsym called by a single thread: the calls nest, they never overlap.
\* Between two calls of dlsym the game may load a library of its own.
MainThread == 1

NextDlsym ==
  \/ \E handle \in {RTLD_DEFAULT, RTLD_NEXT, GameHandle}, name \in SymNames :
        Enter(MainThread, handle, name)
  \/ \E name \in NestedNames, inNative \in BOOLEAN :
        EnterNested(MainThread, RTLD_NEXT, name, inNative)
  \/ SetSafe(MainThread)
  \/ IncRead(MainThread)
  \/ IncWrite(MainThread)
  \/ Dispatch(MainThread)
  \/ Remap(MainThread)
  \/ OrigReturn(MainThread)
  \/ DecRead(MainThread)
  \/ Return(MainThread)
  \/ \E b \in BOOLEAN : setNative(b)
  \/ \E found \in BOOLEAN :
        /\ stack[MainThread] = <<>>
        /\ dlopen(File(PATH_foo), found)

SpecDlsym == InitDl /\ [][NextDlsym]_vars

\* dlsym called by two threads: their steps interleave; recurs_count, safe
\* and the execution mode are shared.  Both threads ask for a hooked name in
\* the game's library; the calls of the main thread are re-entered from
\* inside orig::dlsym, once.
NextDlsymMT ==
  \/ \E t \in Threads :
        /\ recurs_count \in (0 - MaxDrift)..MaxDrift
        /\ Enter(t, GameHandle, "SDL_Init")
  \/ \E name \in NestedNames :
        /\ recurs_count \in (0 - MaxDrift)..MaxDrift
        /\ Len(stack[MainThread]) < MaxDepth - 1
        /\ EnterNested(MainThread, RTLD_NEXT, name, FALSE)
  \/ \E t \in Threads : SetSafe(t)
  \/ \E t \in Threads : IncRead(t)
  \/ \E t \in Threads : IncWrite(t)
  \/ \E t \in Threads : Dispatch(t)
  \/ \E t \in Threads : OrigReturn(t)
  \/ \E t \in Threads : DecRead(t)
  \/ \E t \in Threads : Return(t)
  \/ \E b \in BOOLEAN : setNative(b)

SpecDlsymMT == InitDl /\ [][NextDlsymMT]_vars

(***************************************************************************)
(*                              The claims                                 *)
(***************************************************************************)
\* The messages sent in a trace, in order.
RECURSIVE Sent(_)
Sent(t) ==
  IF t = <<>> THEN <<>>
  ELSE (IF Head(t).ev = "sendMessage" THEN <<Head(t).msg>> ELSE <<>>) \o Sent(Tail(t))

\* Number of events of kind e in a trace.
RECURSIVE Count(_, _)
Count(t, e) ==
  IF t = <<>> THEN 0
  ELSE (IF Head(t).ev = e THEN 1 ELSE 0) + Count(Tail(t), e)

\* Position of the first event satisfying ev = e (0 when there is none).
FirstPos(t, e) ==
  IF \E i \in 1..Len(t) : t[i].ev = e
  THEN CHOOSE i \in 1..Len(t) : t[i].ev = e /\ \A j \in 1..(i-1) : t[j].ev # e
  ELSE 0

\* a and b hold the same inputs on every frame index below min(n, len a,
\* len b): "a is a prefix of b up to n".
PrefixUpTo(a, b, n) ==
  \A i \in 1..Len(a) : (i <= n /\ i <= Len(b)) => a[i] = b[i]

\* The state a load left: the context, the live movie and the files are
\* those the load saw.
AfterLoad == last.op = "load"
SnapshotPresent == disk.pagemap /\ disk.pages
MovieLoads == disk.moviefile.kind = "movie"
LoadSucceeded == last.ret = RET_ZERO /\ HasSent(io, MSGN_LOADSTATE)
PlaybackNoBranch == AfterLoad /\ context.recording = RECORDING_READ /\ ~last.branch

\* C1 as stated: a load in playback mode without branch, with the snapshot
\* files present and a companion movie that loads, returns 0 and sends
\* MSGN_LOADSTATE iff the live movie is a prefix of the slot's movie at the
\* current frame count, and returns EINPUTMISMATCH without MSGN_LOADSTATE
\* otherwise.
C1_AsStated ==
  (PlaybackNoBranch /\ SnapshotPresent /\ MovieLoads) =>
    IF PrefixUpTo(movie.input_list, disk.moviefile.input_list, context.framecount)
    THEN LoadSucceeded
    ELSE last.ret = EINPUTMISMATCH /\ ~HasSent(io, MSGN_LOADSTATE)

\* C1 as amended: such a load returns 0 and sends MSGN_LOADSTATE iff the
\* slot's movie is a prefix of the live movie over the slot movie's whole
\* length, whatever the current frame count; otherwise it returns
\* EINPUTMISMATCH and sends no MSGN_LOADSTATE.
C1_PlaybackLoadChecksSlotMovie ==
  (PlaybackNoBranch /\ SnapshotPresent /\ MovieLoads) =>
    IF PrefixUpTo(disk.moviefile.input_list, movie.input_list,
                  Len(disk.moviefile.input_list))
    THEN LoadSucceeded
    ELSE last.ret = EINPUTMISMATCH /\ ~HasSent(io, MSGN_LOADSTATE)

\* C1, witness: a playback load refused for a mismatch beyond the current
\* frame count, the inputs below the frame count being equal.
C1_Witness ==
  /\ PlaybackNoBranch /\ SnapshotPresent /\ MovieLoads
  /\ last.ret = EINPUTMISMATCH
  /\ PrefixUpTo(movie.input_list, disk.moviefile.input_list, context.framecount)

\* C2: a load with branch set and both snapshot files present returns 0 and
\* sends MSGN_LOADSTATE, in every recording mode and whatever the live
\* movie and the slot's movie file.
C2_BranchLoadSkipsCheck ==
  (AfterLoad /\ last.branch /\ SnapshotPresent) => LoadSucceeded

\* C2, witness: a branch load in playback mode that succeeded although the
\* slot's movie is no prefix of the live movie.
C2_Witness ==
  /\ AfterLoad /\ last.branch /\ SnapshotPresent /\ LoadSucceeded
  /\ context.recording = RECORDING_READ
  /\ MovieLoads
  /\ ~PrefixUpTo(disk.moviefile.input_list, movie.input_list,
                 Len(disk.moviefile.input_list))

\* The movie fallback of a load without snapshot does not apply.
NoFallback ==
  \/ context.recording = NO_RECORDING
  \/ disk.moviefile.kind = "none"
  \/ ~MovieLoads
  \/ ~PrefixUpTo(movie.input_list, disk.moviefile.input_list, context.framecount)

\* C3: a load of a slot whose page-map or page-data file is absent returns
\* ENOSTATE and sends no MSGN_LOADSTATE whenever the recording mode is
\* NO_RECORDING, or there is no companion movie, or it does not load, or the
\* live movie is no prefix of it at the current frame count.
C3_NoStateWhenNoFallback ==
  (AfterLoad /\ ~SnapshotPresent /\ NoFallback) =>
    (last.ret = ENOSTATE /\ ~HasSent(io, MSGN_LOADSTATE))

\* C3, witness: only the page-data file is missing, the movie loads and is
\* a prefix, and the load still ends in ENOSTATE because nothing is recorded.
C3_Witness ==
  /\ AfterLoad /\ disk.pagemap /\ ~disk.pages
  /\ context.recording = NO_RECORDING
  /\ MovieLoads
  /\ PrefixUpTo(movie.input_list, disk.moviefile.input_list, context.framecount)
  /\ last.ret = ENOSTATE

\* C4 as stated: a load of a slot without snapshot files whose companion
\* movie exists, the live movie being a prefix of it, returns
\* ENOSTATEMOVIEPREFIX and never ENOSTATE, whatever the recording mode.
C4_AsStated ==
  (/\ AfterLoad /\ ~SnapshotPresent /\ MovieLoads
   /\ PrefixUpTo(movie.input_list, disk.moviefile.input_list, Len(movie.input_list)))
  => last.ret = ENOSTATEMOVIEPREFIX

\* C4 as amended: the same, provided the recording mode is not NO_RECORDING.
C4_MoviePrefixFallback ==
  (/\ AfterLoad /\ ~SnapshotPresent /\ MovieLoads
   /\ context.recording # NO_RECORDING
   /\ PrefixUpTo(movie.input_list, disk.moviefile.input_list, Len(movie.input_list)))
  => last.ret = ENOSTATEMOVIEPREFIX

\* C4, witness: the fallback outcome, for a live movie that is a non-empty
\* prefix of the slot's movie.
C4_Witness ==
  /\ AfterLoad /\ ~SnapshotPresent /\ MovieLoads
  /\ context.recording # NO_RECORDING
  /\ Len(movie.input_list) > 0
  /\ PrefixUpTo(movie.input_list, disk.moviefile.input_list, Len(movie.input_list))
  /\ last.ret = ENOSTATEMOVIEPREFIX

\* C5: a playback load without branch, with the snapshot files present and a
\* companion movie that cannot be loaded, returns ENOMOVIE, an outcome
\* different from EINPUTMISMATCH and ENOSTATE, and sends no MSGN_LOADSTATE.
C5_NoMovieOutcome ==
  (PlaybackNoBranch /\ SnapshotPresent /\ ~MovieLoads) =>
    /\ last.ret = ENOMOVIE
    /\ last.ret \notin {EINPUTMISMATCH, ENOSTATE}
    /\ ~HasSent(io, MSGN_LOADSTATE)

\* C5, witness: such a load on a movie file that is there and unreadable.
C5_Witness ==
  /\ PlaybackNoBranch /\ SnapshotPresent
  /\ disk.moviefile.kind = "bad"
  /\ last.ret = ENOMOVIE

\* C6: with the slot's movie [U,U,D,D] and the live movie [U,U,D,D,L], a
\* playback load without branch (snapshot files present) returns 0 and
\* sends MSGN_LOADSTATE.
C6_ScenarioLoadSucceeds ==
  (/\ PlaybackNoBranch /\ SnapshotPresent /\ MovieLoads
   /\ disk.moviefile.input_list = ScenarioSlotMovie
   /\ movie.input_list = ScenarioLiveMovie)
  => LoadSucceeded

\* C6, witness: the scenario's load has been made.
C6_Witness ==
  /\ PlaybackNoBranch /\ SnapshotPresent /\ MovieLoads
  /\ disk.moviefile.input_list = ScenarioSlotMovie
  /\ movie.input_list = ScenarioLiveMovie
  /\ LoadSucceeded

\* C7: a save persists the live movie to the companion movie file, stamped
\* with the current frame count, before any message is sent, exactly when
\* the recording mode is not NO_RECORDING; with NO_RECORDING the movie file
\* is not written.
C7_MovieSavedBeforeRequest ==
  [][last'.op = "save" =>
       IF context.recording # NO_RECORDING
       THEN /\ io'[1] = SaveMovieEv(ss'.movie_path, context.framecount)
            /\ Count(io', "saveMovie") = 1
            /\ FirstPos(io', "sendMessage") > 1
            /\ HasSent(io', MSGN_SAVESTATE)
            /\ disk'.moviefile.kind = "movie"
            /\ disk'.moviefile.framecount = context.framecount
            /\ PrefixUpTo(disk'.moviefile.input_list, movie.input_list,
                          Len(disk'.moviefile.input_list))
            /\ Len(disk'.moviefile.input_list) =
                 Min2(context.framecount, Len(movie.input_list))
       ELSE /\ Count(io', "saveMovie") = 0
            /\ disk'.moviefile = disk.moviefile]_vars

\* C7, witness: a save in a recording mode at frame 1 wrote a movie file
\* holding one frame.
C7_Witness ==
  /\ last.op = "save"
  /\ context.recording # NO_RECORDING
  /\ context.framecount = 1
  /\ disk.moviefile.kind = "movie"
  /\ Len(disk.moviefile.input_list) = 1

\* C8: a save sets the savestate's frame count to the context's frame count
\* iff the reply is MSGB_SAVING_SUCCEEDED; on any other reply the savestate's
\* frame count keeps its value.
C8_FramecountSetOnSuccess ==
  [][last'.op = "save" =>
       IF last'.ret = MSGB_SAVING_SUCCEEDED
       THEN ss'.framecount = context.framecount
       ELSE ss'.framecount = ss.framecount]_vars

\* C8, witness: a save that was not reported as succeeded left a frame
\* count that differs from the context's.
C8_Witness ==
  /\ last.op = "save"
  /\ last.ret # MSGB_SAVING_SUCCEEDED
  /\ ss.framecount # context.framecount

\* C9: a save with SS_RAM set creates the page-map and page-data files and
\* sends no MSGN_SAVESTATE_PATH; a save without SS_RAM sends
\* MSGN_SAVESTATE_PATH followed by the slot's path and creates no file.
C9_RamOrPath ==
  [][last'.op = "save" =>
       IF context.ss_ram
       THEN /\ \E i \in 1..(Len(io') - 1) :
                 /\ io'[i] = CreateFile(ss'.pagemap_path)
                 /\ io'[i + 1] = CreateFile(ss'.pages_path)
            /\ disk'.pagemap /\ disk'.pages
            /\ ~HasSent(io', MSGN_SAVESTATE_PATH)
       ELSE /\ \E i \in 1..(Len(io') - 1) :
                 /\ io'[i] = SendMessage(MSGN_SAVESTATE_PATH)
                 /\ io'[i + 1] = SendString(ss'.path)
            /\ Count(io', "ofstream") = 0
            /\ disk'.pagemap = disk.pagemap
            /\ disk'.pages = disk.pages]_vars

\* C9, witness: a save in RAM mode has created the two files.
C9_Witness ==
  /\ last.op = "save"
  /\ context.ss_ram
  /\ Count(io, "ofstream") = 2
  /\ disk.pagemap /\ disk.pages

\* C10: postLoad reads one result message first; it sends MSGN_CONFIG iff
\* that message is MSGB_LOADING_SUCCEEDED (and then reads one more message,
\* the report); otherwise it reads no other message, sends no MSGN_CONFIG,
\* reloads nothing and leaves the movie's inputs, its modified flag and the
\* rerecord counter unchanged.
C10_PostLoadOnlyOnSuccess ==
  [][last'.op = "postLoad" =>
       /\ io'[1].ev = "receiveMessage"
       /\ HasSent(io', MSGN_CONFIG) <=> (io'[1].msg = MSGB_LOADING_SUCCEEDED)
       /\ IF io'[1].msg = MSGB_LOADING_SUCCEEDED
          THEN Count(io', "receiveMessage") = 2
          ELSE /\ Count(io', "receiveMessage") = 1
               /\ Count(io', "loadInputs") = 0
               /\ movie' = movie
               /\ context'.rerecord_count = context.rerecord_count]_vars

\* C10, witness: a postLoad whose result was not a success left the movie
\* modified and sent no MSGN_CONFIG.
C10_Witness ==
  /\ last.op = "postLoad"
  /\ io[1].msg # MSGB_LOADING_SUCCEEDED
  /\ movie.modifiedSinceLastStateLoad
  /\ ~HasSent(io, MSGN_CONFIG)

\* The messages received in a trace, in order.
RECURSIVE Received(_)
Received(t) ==
  IF t = <<>> THEN <<>>
  ELSE (IF Head(t).ev = "receiveMessage" THEN <<Head(t).msg>> ELSE <<>>)
       \o Received(Tail(t))

\* The receiveData events of a trace, in order.
RECURSIVE DataRead(_)
DataRead(t) ==
  IF t = <<>> THEN <<>>
  ELSE (IF Head(t).ev = "receiveData" THEN <<Head(t)>> ELSE <<>>) \o DataRead(Tail(t))

\* Number of sendMessage(m) in a trace.
RECURSIVE CountSent(_, _)
CountSent(t, m) ==
  IF t = <<>> THEN 0
  ELSE (IF Head(t) = SendMessage(m) THEN 1 ELSE 0) + CountSent(Tail(t), m)

\* C11: in a postLoad whose result message is MSGB_LOADING_SUCCEEDED, the
\* live movie's inputs are reloaded from the slot's companion movie file
\* (one loadInputs on the slot's movie path) iff the recording mode is
\* RECORDING_WRITE or branch is set; otherwise no loadInputs happens and the
\* live movie's inputs are left as they were.
C11_ReloadIffWriteOrBranch ==
  [][(last'.op = "postLoad" /\ io'[1] = ReceiveMessage(MSGB_LOADING_SUCCEEDED)) =>
       LET reload == context.recording = RECORDING_WRITE \/ last'.branch
       IN /\ reload <=> Count(io', "loadInputs") = 1
          /\ ~reload <=> Count(io', "loadInputs") = 0
          /\ reload =>
               /\ \E i \in 1..Len(io') : io'[i] = LoadInputsEv("movie", ss.movie_path)
               /\ movie'.input_list =
                    loadInputs(disk.moviefile, movie.input_list).input_list
          /\ ~reload => movie'.input_list = movie.input_list]_vars

\* C11, witness: after a branch load in playback mode the live movie holds
\* the inputs read from the slot's movie file.
C11_Witness ==
  /\ last.op = "postLoad" /\ last.branch
  /\ context.recording = RECORDING_READ
  /\ io[1] = ReceiveMessage(MSGB_LOADING_SUCCEEDED)
  /\ Count(io, "loadInputs") = 1
  /\ disk.moviefile.kind = "movie"
  /\ movie.input_list = disk.moviefile.input_list

\* C12 as stated: every load (load + postLoad) adds 1 to the rerecord count
\* when the movie was modified and 0 when it was not.
C12_AsStated ==
  [][last'.op = "postLoad" =>
       context'.rerecord_count =
         context.rerecord_count
         + (IF movie.modifiedSinceLastStateLoad THEN 1 ELSE 0)]_vars

\* C12: a load whose result message is MSGB_LOADING_SUCCEEDED adds exactly 1
\* to the rerecord count when the movie was modified since the last such
\* load, and 0 when it was not.
C12_RerecordPerLoadedState ==
  [][(last'.op = "postLoad" /\ io'[1] = ReceiveMessage(MSGB_LOADING_SUCCEEDED)) =>
       context'.rerecord_count =
         context.rerecord_count
         + (IF movie.modifiedSinceLastStateLoad THEN 1 ELSE 0)]_vars

\* C12, witness: the count reached 1 by a loaded state after an edit.
C12_Witness ==
  /\ last.op = "postLoad"
  /\ io[1] = ReceiveMessage(MSGB_LOADING_SUCCEEDED)
  /\ context.rerecord_count = 1
  /\ ~movie.modifiedSinceLastStateLoad

\* C13: the rerecord count never decreases; it changes only in a postLoad
\* whose result message is MSGB_LOADING_SUCCEEDED; it grows by at most 1 per
\* postLoad; it does not grow in a postLoad that no movie edit preceded since
\* the last loaded state; after such a postLoad the movie's modified flag is
\* false.
C13_RerecordInvariant ==
  [][/\ context'.rerecord_count >= context.rerecord_count
     /\ context'.rerecord_count # context.rerecord_count =>
          /\ last'.op = "postLoad"
          /\ io'[1] = ReceiveMessage(MSGB_LOADING_SUCCEEDED)
          /\ context'.rerecord_count = context.rerecord_count + 1
          /\ movie.modifiedSinceLastStateLoad
     /\ (last'.op = "postLoad" /\ io'[1] = ReceiveMessage(MSGB_LOADING_SUCCEEDED)) =>
          ~movie'.modifiedSinceLastStateLoad]_vars

\* C13, witness: a loaded state with recording off left a count of 1 and a
\* cleared flag.
C13_Witness ==
  /\ last.op = "postLoad"
  /\ io[1] = ReceiveMessage(MSGB_LOADING_SUCCEEDED)
  /\ context.recording = NO_RECORDING
  /\ context.rerecord_count = 1
  /\ ~movie.modifiedSinceLastStateLoad
  /\ HasSent(io, MSGN_EXPOSE)

\* C14: in a postLoad whose result message is MSGB_LOADING_SUCCEEDED and
\* whose next message is not MSGB_FRAMECOUNT_TIME, the outcome is ENOLOAD,
\* nothing is read after that message, and the context's frame counter and
\* current time keep their values.
C14_ProtocolError ==
  [][(/\ last'.op = "postLoad"
      /\ Len(Received(io')) = 2
      /\ Received(io')[1] = MSGB_LOADING_SUCCEEDED
      /\ Received(io')[2] # MSGB_FRAMECOUNT_TIME) =>
       /\ last'.ret = ENOLOAD
       /\ DataRead(io') = <<>>
       /\ context'.framecount = context.framecount
       /\ context'.current_time_sec = context.current_time_sec
       /\ context'.current_time_nsec = context.current_time_nsec]_vars

\* C14, witness: the protocol error left the frame counter of frame 1.
C14_Witness ==
  /\ last.op = "postLoad" /\ last.ret = ENOLOAD
  /\ Received(io) = <<MSGB_LOADING_SUCCEEDED, MSGB_OTHER>>
  /\ context.framecount = 1

\* C15 as stated: every postLoad sends MSGN_EXPOSE exactly once, whatever
\* its outcome.
C15_AsStated ==
  last.op = "postLoad" => CountSent(io, MSGN_EXPOSE) = 1

\* C16: after a result of MSGB_LOADING_SUCCEEDED followed by a
\* MSGB_FRAMECOUNT_TIME report, postLoad has read three values, into the
\* frame counter, current_time_sec and current_time_nsec in that order, the
\* context holds them, and the outcome is MSGB_LOADING_SUCCEEDED.
C16_ReportApplied ==
  (last.op = "postLoad"
   /\ Received(io) = <<MSGB_LOADING_SUCCEEDED, MSGB_FRAMECOUNT_TIME>>) =>
    LET d == DataRead(io)
    IN /\ Len(d) = 3
       /\ <<d[1].msg, d[2].msg, d[3].msg>> =
            <<"framecount", "current_time_sec", "current_time_nsec">>
       /\ context.framecount = d[1].num
       /\ context.current_time_sec = d[2].num
       /\ context.current_time_nsec = d[3].num
       /\ last.ret = MSGB_LOADING_SUCCEEDED

\* C16, witness: the report of frame 1 was applied to a context that a load
\* at frame 0 had left.
C16_Witness ==
  /\ last.op = "postLoad" /\ last.ret = MSGB_LOADING_SUCCEEDED
  /\ Received(io) = <<MSGB_LOADING_SUCCEEDED, MSGB_FRAMECOUNT_TIME>>
  /\ context.framecount = 1
  /\ context.current_time_sec = FrameTime(1)[1]
  /\ context.current_time_nsec = FrameTime(1)[2]

\* C17 as stated: save returns the message it received, and postLoad returns
\* the result message of the load, success or failure.
C17_AsStated ==
  /\ last.op = "save" => Received(io) = <<last.ret>>
  /\ last.op = "postLoad" => last.ret = Received(io)[1]

\* C17: save returns exactly the message it received.  postLoad returns
\* MSGB_LOADING_SUCCEEDED when that was the result message and the report
\* followed; a result message other than MSGB_LOADING_SUCCEEDED is not
\* returned: the outcome is 0 when that message is MSGB_FRAMECOUNT_TIME and
\* ENOLOAD otherwise, as it is when no report follows a success.
C17_ResultCodes ==
  /\ last.op = "save" => Received(io) = <<last.ret>>
  /\ last.op = "postLoad" =>
       LET r == Received(io)
       IN last.ret =
            IF r[Len(r)] # MSGB_FRAMECOUNT_TIME THEN ENOLOAD
            ELSE IF r[1] = MSGB_LOADING_SUCCEEDED THEN MSGB_LOADING_SUCCEEDED
            ELSE RET_ZERO

\* C17, witness: a postLoad passed the success code through.
C17_Witness ==
  /\ last.op = "postLoad"
  /\ Received(io)[1] = MSGB_LOADING_SUCCEEDED
  /\ last.ret = MSGB_LOADING_SUCCEEDED

\* The trace of a dlopen call without the bootstrap, the path the call was
\* made with (the empty string for a null pointer), and whether it was made
\* with a null pointer: the first event of every call names the file.
StripBootstrap(t) == IF t # <<>> /\ t[1].ev = "_dl_sym" THEN Tail(t) ELSE t
Requested(t) == StripBootstrap(t)[1].text
RequestedNull(t) == StripBootstrap(t)[1].msg \in {"nullptr", "call with file <NULL>"}
\* Number of entries of the library set equal to a path.
Entries(set, path) == Cardinality({i \in 1..Len(set) : set[i] = path})
\* Whether a path holds one of the two refused names.
OnDenyList(path) == Find(path, STR_libpulse) \/ Find(path, STR_ScreenSelector)

\* C18: a dlopen in intercepted mode with a path containing "libpulse" or
\* "ScreenSelector.so" returns a null handle, does not call the real loader,
\* leaves the library set as it was and runs no hook-installation routine.
C18_DenyListed ==
  [][(dlio' # <<>> /\ ~native /\ OnDenyList(Requested(dlio'))) =>
       /\ dlret' = 0
       /\ Count(dlio', "orig::dlopen") = 0
       /\ Count(dlio', "add_lib") = 0
       /\ Count(dlio', "hook") = 0
       /\ library_set' = library_set
       /\ hook_calls' = hook_calls]_vars

\* C18, witness: the screen selector was refused while the library set held
\* a library.
C18_Witness ==
  /\ ~native
  /\ dlio # <<>> /\ dlio[Len(dlio)] = LogBlocked(File(PATH_selector))
  /\ dlret = 0
  /\ library_set = <<PATH_foo>>

\* C19 as stated: after a dlopen of a non-null path that is not on the
\* deny-list and that the loader found, the library set holds exactly one
\* entry for the path, whatever the execution mode.
C19_AsStated ==
  [][(/\ dlio' # <<>>
      /\ ~RequestedNull(dlio')
      /\ ~OnDenyList(Requested(dlio'))
      /\ dlret' # 0) =>
       Entries(library_set', Requested(dlio')) = 1]_vars

\* C19: in intercepted mode, after a dlopen of a non-null path that is not
\* on the deny-list and that the loader found, the library set holds exactly
\* one entry for the path, also when the path was loaded before; no entry of
\* the library set is ever held twice.
C19_OneEntryPerPath ==
  [][/\ (/\ dlio' # <<>> /\ ~native
         /\ ~RequestedNull(dlio')
         /\ ~OnDenyList(Requested(dlio'))
         /\ dlret' # 0) =>
          Entries(library_set', Requested(dlio')) = 1
     /\ \A i \in 1..Len(library_set') :
          Entries(library_set', library_set'[i]) = 1]_vars

\* C19, witness: a library loaded for the second time, found again, with
\* its hook routine run twice and one entry.
C19_Witness ==
  /\ ~native
  /\ dlret = HandleOf(File(PATH_user32))
  /\ Requested(dlio) = PATH_user32
  /\ hook_calls["user32"] = 2
  /\ Entries(library_set, PATH_user32) = 1

\* C20: a dlopen in native mode calls the real loader with the file and
\* returns what it returned, for a file of the deny-list as for any other;
\* it logs nothing, leaves the library set as it was and runs no
\* hook-installation routine.
C20_NativeDelegates ==
  [][(dlio' # <<>> /\ native) =>
       LET t == StripBootstrap(dlio')
       IN /\ Len(t) = 1
          /\ t[1].ev = "orig::dlopen"
          /\ t[1].num = dlret'
          /\ \E file \in DlFiles, found \in BOOLEAN :
                /\ t[1] = OrigDlopen(file, RealDlopen(file, found))
                /\ dlret' = RealDlopen(file, found)
          /\ library_set' = library_set
          /\ hook_calls' = hook_calls]_vars

\* C20, witness: in native mode the real loader loaded libpulse, and the
\* wine library loaded left no entry and ran no routine.
C20_Witness ==
  /\ native
  /\ dlio = <<OrigDlopen(File(PATH_pulse), HandleOf(File(PATH_pulse)))>>
  /\ dlret = HandleOf(File(PATH_pulse))
  /\ library_set = <<>>
  /\ \A f \in HookFamilies : hook_calls[f] = 0

\* The family a path belongs to, as dlopen tests it.
InFamily(path, f) ==
  \/ f = "wined3d" /\ Find(path, STR_wined3d)
  \/ f = "user32" /\ Find(path, STR_user32)
  \/ f = "kernel32" /\ Find(path, STR_kernel32)

\* C21 as stated: after a dlopen in intercepted mode that the loader found,
\* of a path matching a family, that family's hook-installation routine has
\* run exactly once since the start, whatever was loaded before; the other
\* routines have not run in the call.
C21_AsStated ==
  [][(dlio' # <<>> /\ ~native /\ ~RequestedNull(dlio') /\ dlret' # 0) =>
       \A f \in HookFamilies :
          IF InFamily(Requested(dlio'), f)
          THEN hook_calls'[f] = 1
          ELSE hook_calls'[f] = hook_calls[f]]_vars

\* C28: for the movies A (of the slot) and B (live) and the bound N (the
\* frame count), A.isPrefix(B, N), which decides between the outcomes
\* ENOSTATEMOVIEPREFIX and ENOSTATE of a load without snapshot, holds when
\* A = B and N <= len(A), and does not hold when some frame index below
\* min(N, len(A), len(B)) holds different inputs in A and B.
C28_PrefixPredicate ==
  (last.op = "load" /\ ~SnapshotPresent /\ MovieLoads
   /\ context.recording # NO_RECORDING) =>
    LET A == disk.moviefile.input_list
        B == movie.input_list
        N == context.framecount
        holds == last.ret = ENOSTATEMOVIEPREFIX
    IN /\ last.ret \in {ENOSTATEMOVIEPREFIX, ENOSTATE}
       /\ (A = B /\ N <= Len(A)) => holds
       /\ (\E k \in 1..Len(A) : k <= N /\ k <= Len(B) /\ A[k] # B[k]) => ~holds

\* C28, witness: two movies of three frames that differ at the third frame
\* only, compared up to frame 3, are not prefix-equal.
C28_Witness ==
  /\ last.op = "load" /\ last.ret = ENOSTATE
  /\ disk.moviefile.input_list = <<"U", "U", "D">>
  /\ movie.input_list = <<"U", "U", "U">>
  /\ context.framecount = 3

\* What a trace puts on the channel, in order: its sendMessage, sendData
\* and sendString events.
Channel(t) == SelectSeq(t, LAMBDA e : e.ev \in {"sendMessage", "sendData", "sendString"})

\* C29: what a save puts on the channel is, in this order,
\* MSGN_SAVESTATE_INDEX and the slot id, then MSGN_SAVESTATE_PATH and the
\* path when the savestate is not in RAM, then MSGN_OSD_MSG and the saving
\* message when on-screen messages are on, then MSGN_SAVESTATE; the save
\* reads exactly one message, as its last step, after MSGN_SAVESTATE.
C29_SaveMessageOrder ==
  last.op = "save" =>
    /\ Channel(io) =
         <<SendMessage(MSGN_SAVESTATE_INDEX), SendId(ss.id)>>
         \o (IF ~context.ss_ram
             THEN <<SendMessage(MSGN_SAVESTATE_PATH), SendString(ss.path)>> ELSE <<>>)
         \o (IF context.osd_messages
             THEN <<SendMessage(MSGN_OSD_MSG), SendString(ss.saving_msg)>> ELSE <<>>)
         \o <<SendMessage(MSGN_SAVESTATE)>>
    /\ Count(io, "receiveMessage") = 1
    /\ io[Len(io)].ev = "receiveMessage"
    /\ io[Len(io) - 1] = SendMessage(MSGN_SAVESTATE)

\* C29, witness: a save to disk with on-screen messages on sent the four
\* messages and read the reply.
C29_Witness ==
  /\ last.op = "save"
  /\ ~context.ss_ram /\ context.osd_messages
  /\ Sent(io) = <<MSGN_SAVESTATE_INDEX, MSGN_SAVESTATE_PATH, MSGN_OSD_MSG, MSGN_SAVESTATE>>
  /\ Received(io) = <<MSGB_OTHER>>

(**************************** dlsym claims *********************************)
\* The lookups a call of dlsym made: every call of a resolver, of dladdr and
\* of dlopen, the bootstrap of orig::dlsym aside.
IsLookup(e) ==
  \/ e.ev \in {"orig::dlsym", "dladdr", "dlopen"}
  \/ e.ev = "_dl_sym" /\ e # DlsymBootstrapEv
RECURSIVE Lookups(_)
Lookups(t) ==
  IF t = <<>> THEN <<>>
  ELSE (IF IsLookup(t[1]) THEN <<t[1]>> ELSE <<>>) \o Lookups(Tail(t))
HasEv(t, kind) == \E i \in 1..Len(t) : t[i].ev = kind

\* C22 as stated: a call of dlsym that found recurs_count > 0 on entry looks
\* the symbol up through _dl_sym, and calls neither orig::dlsym nor find_sym,
\* whatever the execution mode.
C22_AsStated ==
  (done.valid /\ done.depth0 > 0) =>
     Lookups(done.trace) = <<Dl_sym(done.handle, done.name)>>

\* C23 as stated: dlsym asked for "dlopen" or "dlsym" returns the hook of
\* that name and looks nothing up, for every handle (and every mode).
C23_AsStated ==
  (done.valid /\ done.name \in {"dlopen", "dlsym"}) =>
     /\ done.ret = Addr("libtas", done.name)
     /\ Lookups(done.trace) = <<>>

\* C23: in intercepted mode, dlsym asked for "dlopen" or "dlsym" returns the
\* hook of that name and looks nothing up, for every handle.
C23_OwnNames ==
  (done.valid /\ ~done.native0 /\ done.name \in {"dlopen", "dlsym"}) =>
     /\ done.ret = Addr("libtas", done.name)
     /\ Lookups(done.trace) = <<>>

C23_Witness ==
  /\ done.valid /\ ~done.native0
  /\ done.name = "dlsym" /\ done.handle = RTLD_NEXT
  /\ done.ret = Addr("libtas", "dlsym")
  /\ RealDlsym(done.handle, done.name) = Addr("libc", "dlsym")

\* C24: in intercepted mode, dlsym(RTLD_NEXT, name) for a name of the
\* localtime family returns what the real resolver finds for the name in the
\* handle of libc that dlsym opened itself; it makes no other lookup (none
\* of the default scope, none by find_sym) and fires no detection trigger;
\* the dlopen of libc went straight to the real loader, as in native mode,
\* and the library set holds no entry for libc.
C24_LocaltimeRemap ==
  (/\ done.valid /\ ~done.native0 /\ done.handle = RTLD_NEXT
   /\ done.name \in {"localtime", "localtime64", "localtime_r", "localtime64_r"}) =>
     /\ done.ret = RealDlsym(LibcHandle, done.name)
     /\ Lookups(done.trace) = <<DlopenEv(File(PATH_libc), LibcHandle),
                                OrigDlsym(LibcHandle, done.name)>>
     /\ ~HasEv(done.trace, "GameHacks::setUnity")
     /\ ~HasEv(done.trace, "hook_ntdll")
     /\ StripBootstrap(dlio) = <<OrigDlopen(File(PATH_libc), LibcHandle)>>
     /\ Entries(library_set, PATH_libc) = 0

C24_Witness ==
  /\ done.valid /\ ~done.native0 /\ done.handle = RTLD_NEXT
  /\ done.name = "localtime_r"
  /\ done.ret = Addr("libc", "localtime_r")
  /\ RealDlsym(RTLD_DEFAULT, done.name) = Addr("libtas", "localtime_r")
  /\ dlret = LibcHandle

\* C25 as stated: a call of dlsym in intercepted mode, for a name that is
\* neither "dlopen" nor "dlsym" nor a remapped localtime name, returns the
\* hook of libtas.so exactly when the default scope finds the name in
\* libtas.so, and otherwise what the real resolver gives for (handle, name);
\* the result depends on (handle, name) only.
C25_AsStated ==
  (/\ done.valid /\ ~done.native0
   /\ done.name \notin {"dlopen", "dlsym"}
   /\ ~(done.handle = RTLD_NEXT
        /\ done.name \in {"localtime", "localtime64", "localtime_r", "localtime64_r"})) =>
     LET d == RealDlsym(RTLD_DEFAULT, done.name)
         own == d # Null /\ d[1] = "libtas"
     IN /\ (done.ret = Addr("libtas", done.name)) <=> own
        /\ ~own => done.ret = RealDlsym(done.handle, done.name)

\* C26: a call of dlsym returns in the execution mode it was entered in, on
\* each of its returns; and while a call runs, the mode differs from the one
\* at its entry only as long as its GlobalNative object is alive.
C26_ModeRestored ==
  /\ done.valid => done.native_exit = done.native0
  /\ stack[MainThread] # <<>> =>
        LET f == Top(MainThread)
        IN IF f.gn = "none" THEN native = f.native0 ELSE native

C26_Witness ==
  /\ done.valid /\ ~done.native0 /\ ~done.native_exit
  /\ done.handle = RTLD_NEXT /\ done.name = "localtime"
  /\ HasEv(done.trace, "GlobalNative")
  /\ done.level = 1 /\ ~native

\* C27 as stated: while a call of dlsym that found recurs_count > 0 on entry
\* is in progress, dlsym is not entered again: every call below the
\* innermost one found recurs_count = 0.
C27_AsStated ==
  \A i \in 1..(Len(stack[MainThread]) - 1) : stack[MainThread][i].depth0 = 0

\* C30: with a single thread, recurs_count is never negative, it is 0 when no
\* call is in progress, it is k in the body of a call nested k deep (between
\* its recurs_count++ and its recurs_count--), and a call nested k deep
\* leaves k - 1 when it returns, by whichever return.
C30_CounterIsDepth ==
  /\ recurs_count >= 0
  /\ stack[MainThread] = <<>> => recurs_count = 0
  /\ (/\ stack[MainThread] # <<>>
      /\ Top(MainThread).pc \in {"dispatch", "remap", "in_orig", "dec_read", "dec_write"}) =>
        recurs_count = Len(stack[MainThread])
  /\ done.valid => recurs_count = done.level - 1

C30_Witness ==
  /\ done.valid /\ done.level = 1 /\ recurs_count = 0
  /\ ~done.native0 /\ done.handle = RTLD_NEXT /\ done.name = "localtime"
  /\ stack[MainThread] = <<>>

(************************ the remaining claims ******************************)
\* C31: a step never removes a path from the library set, and a path enters
\* it only in a dlopen made in intercepted mode, with that path as its
\* non-null file, to which the real loader returned a non-null handle; a
\* load that failed or was refused, a load in native mode and a load of the
\* null file leave the set as it was.
C31_RegistryOnlyGrows ==
  [][/\ \A i \in 1..Len(library_set) : Entries(library_set', library_set[i]) >= 1
     /\ \A i \in 1..Len(library_set') :
           Entries(library_set, library_set'[i]) = 0 =>
             /\ dlio' # <<>> /\ ~native /\ dlret' # 0
             /\ ~RequestedNull(dlio')
             /\ library_set'[i] = Requested(dlio')]_vars

C31_Witness ==
  /\ ~native
  /\ library_set = <<PATH_foo, PATH_wined3d>>
  /\ dlio # <<>> /\ Requested(dlio) = PATH_kernel32
  /\ dlret = 0

\* C32: with two threads, the store of recurs_count++ writes the value the
\* thread loaded plus one, whatever the other thread stored in between (the
\* update is a read-modify-write without synchronisation), so increments
\* get lost; the witness is the interleaving of the claim.
C32_UnsynchronisedIncrement ==
  [][\A t \in Threads :
       (At(t, "inc_write") /\ stack'[t] # stack[t]) =>
          recurs_count' = Top(t).tmp + 1]_vars

\* Both threads have left dlsym, the counter is negative, and the call that
\* returned last had a call nested in it that found recurs_count = 0.
C32_Witness ==
  /\ \A t \in Threads : stack[t] = <<>>
  /\ recurs_count < 0
  /\ done.valid /\ done.thread = MainThread /\ done.level = 1
  /\ done.inner0

\* C39: recurs_count and safe are one per process: the call of a thread sets
\* safe from the counter all threads share, and in native mode it chooses
\* between _dl_sym and orig::dlsym by the value safe has at that moment,
\* whoever assigned it last.
C39_SharedStatics ==
  [][\A t \in Threads :
       /\ (At(t, "set_safe") /\ stack'[t] # stack[t]) =>
             /\ safe' = (recurs_count > 0)
             /\ stack'[t][Len(stack'[t])].depth0 = recurs_count
       /\ (At(t, "dispatch") /\ stack'[t] # stack[t] /\ native) =>
             LET f == stack'[t][Len(stack'[t])]
             IN f.trace[Len(f.trace)] =
                  IF safe THEN Dl_sym(f.handle, f.name) ELSE OrigDlsym(f.handle, f.name)]_vars

\* The second thread entered at the first level while the main thread was
\* inside dlsym and found recurs_count > 0; it set safe, and when it comes to
\* test it in native mode safe has been cleared by the main thread.
C39_Witness ==
  /\ native
  /\ Len(stack[2]) = 1 /\ stack[2][1].pc = "dispatch" /\ stack[2][1].depth0 > 0
  /\ ~safe
  /\ Len(stack[MainThread]) = 1

\* C33: with one thread, a real entry point once resolved stays resolved;
\* a call of dlopen (dlsym) looks its real entry point up through _dl_sym
\* exactly when it is not resolved yet, as its first act, and leaves it
\* resolved; every call of orig::dlopen and orig::dlsym is made with the
\* entry point resolved; and dlsym never calls dlsym.
C33_BootstrapOnce ==
  [][/\ orig.dlopen => orig'.dlopen
     /\ orig.dlsym => orig'.dlsym
     /\ (dlio' # dlio /\ dlio' # <<>>) =>
           /\ (dlio'[1] = DlSymBootstrap("dlopen")) <=> ~orig.dlopen
           /\ \A i \in 2..Len(dlio') : dlio'[i].ev # "_dl_sym"
           /\ orig'.dlopen
     /\ (stack[MainThread] = <<>> /\ stack'[MainThread] # <<>>) =>
           /\ stack'[MainThread][1].trace =
                 IF orig.dlsym THEN <<>> ELSE <<DlsymBootstrapEv>>
           /\ orig'.dlsym
     /\ \A i \in 1..Len(stack'[MainThread]) :
           LET t == stack'[MainThread][i].trace
           IN /\ HasEv(t, "orig::dlsym") => orig'.dlsym
              /\ \A k \in 1..Len(t) :
                   /\ t[k] = DlsymBootstrapEv => (i = 1 /\ k = 1)
                   /\ t[k].ev # "dlsym"
     /\ HasEv(dlio', "orig::dlopen") => orig'.dlopen
     /\ done'.valid => ~HasEv(done'.trace, "dlsym")]_vars

\* A later call of dlsym, and a later call of dlopen, made no lookup of
\* their real entry point.
C33_Witness ==
  /\ orig.dlopen /\ orig.dlsym
  /\ done.valid /\ done.level = 1
  /\ done.trace[1] # DlsymBootstrapEv /\ HasEv(done.trace, "orig::dlsym")
  /\ dlio # <<>> /\ dlio[1].ev = "orig::dlopen"

\* C40: a call of dlsym entered in native mode returns what the real
\* resolver gives for (handle, name), through _dl_sym when it found
\* recurs_count > 0 and through orig::dlsym otherwise; it makes no other
\* lookup, writes no log, gives no address of its own for "dlopen" and
\* "dlsym", opens no GlobalNative section (no remap), runs neither
\* GameHacks::setUnity nor hook_ntdll, and leaves recurs_count as it found it.
C40_NativeBypass ==
  (done.valid /\ done.native0) =>
     /\ done.ret = RealDlsym(done.handle, done.name)
     /\ Lookups(done.trace) =
          <<IF done.depth0 > 0 THEN Dl_sym(done.handle, done.name)
            ELSE OrigDlsym(done.handle, done.name)>>
     /\ \A i \in 1..Len(done.trace) :
          done.trace[i] = DlsymBootstrapEv \/ IsLookup(done.trace[i])
     /\ recurs_count = done.depth0

C40_Witness ==
  /\ done.valid /\ done.native0 /\ done.level = 1
  /\ done.handle = RTLD_NEXT /\ done.name = "dlopen"
  /\ done.ret = Addr("libc", "dlopen")
  /\ recurs_count = 0


\* The four paths of a slot.
PathsOf(s) == <<s.path, s.pagemap_path, s.pages_path, s.movie_path>>

\* The paths a slot gets from the context as it stands.
PathsFromContext(s) ==
  LET p == <<context.savestatedir, "/", context.gamename, ".state", to_string(s.id)>>
  IN <<p, p \o <<".pm">>, p \o <<".p">>,
       <<context.savestatedir, "/", context.gamename, ".movie", to_string(s.id), ".ltm">>>>

\* C34: the paths are computed from the context by the first save or load
\* and cached: once computed no step changes them, a change of the
\* savestate directory or of the game name included; every later save or
\* load names the cached paths in what it sends and writes; and buildPaths
\* applied to a slot whose paths are computed returns the slot unchanged.
C34_PathsCached ==
  [][ /\ ss.path # <<>> => PathsOf(ss') = PathsOf(ss)
      /\ (ss.path = <<>> /\ last'.op \in {"save", "load"})
            => PathsOf(ss') = PathsFromContext(ss)
      /\ ss'.path # <<>> => buildPaths(ss') = ss'
      /\ last'.op \in {"save", "load"} =>
           \A i \in 1..Len(io') :
              /\ io'[i].ev \in {"saveMovie", "ofstream", "loadInputs"}
                    => io'[i].text \in {ss'.pagemap_path, ss'.pages_path, ss'.movie_path}
              /\ (i > 1 /\ io'[i-1] = SendMessage(MSGN_SAVESTATE_PATH))
                    => io'[i] = SendString(ss'.path) ]_vars

\* A save or load has just run with paths that are no longer those of the
\* context: it sent the cached slot path and wrote the cached movie path.
C34_Witness ==
  /\ last.op \in {"save", "load"}
  /\ PathsOf(ss) # PathsFromContext(ss)
  /\ HasSent(io, MSGN_SAVESTATE_PATH)
  /\ \E i \in 1..Len(io) : io[i] = SendString(ss.path)
  /\ \E i \in 1..Len(io) : io[i].ev \in {"saveMovie", "loadInputs"} /\ io[i].text = ss.movie_path


\* The refusals of SaveState::load.
LoadRefusals == {ENOSTATE, ENOSTATEMOVIEPREFIX, ENOMOVIE, EINPUTMISMATCH}

\* C35: a load sends MSGN_LOADSTATE exactly when it returns 0.  Every load
\* returns 0 or one of the four refusals; a refusal sends no MSGN_LOADSTATE,
\* although MSGN_SAVESTATE_INDEX is the first message of every load and,
\* outside RAM mode, MSGN_SAVESTATE_PATH is sent before ENOMOVIE and
\* EINPUTMISMATCH.  The peer's load reply is pending only after a load that
\* returned 0.
C35_LoadstateIffZero ==
  /\ AfterLoad =>
       /\ last.ret \in LoadRefusals \cup {RET_ZERO}
       /\ HasSent(io, MSGN_LOADSTATE) <=> last.ret = RET_ZERO
       /\ Len(io) >= 2 /\ io[1] = SendMessage(MSGN_SAVESTATE_INDEX)
       /\ (last.ret \in {ENOMOVIE, EINPUTMISMATCH} /\ ~context.ss_ram)
             => HasSent(io, MSGN_SAVESTATE_PATH)
       /\ pending <=> last.ret = RET_ZERO
  /\ pending => AfterLoad /\ last.ret = RET_ZERO

\* A load outside RAM mode was refused for a mismatch of the inputs after
\* the index and the path were sent; no reply is pending.
C35_Witness ==
  /\ AfterLoad /\ last.ret = EINPUTMISMATCH /\ ~context.ss_ram
  /\ HasSent(io, MSGN_SAVESTATE_INDEX) /\ HasSent(io, MSGN_SAVESTATE_PATH)
  /\ ~HasSent(io, MSGN_LOADSTATE) /\ ~pending


\* A step is a save whose reply is not MSGB_SAVING_SUCCEEDED.
FailedSave == last'.op = "save" /\ last'.ret # MSGB_SAVING_SUCCEEDED

\* Every event of kind e in the trace t comes before the reply is received.
BeforeReply(t, e) ==
  \A i \in 1..Len(t) : t[i].ev = e => i < FirstPos(t, "receiveMessage")

\* C36 as stated: after a save whose reply is not MSGB_SAVING_SUCCEEDED the
\* companion movie file holds the movie of that attempt, written before the
\* reply, the placeholder files exist in RAM mode, the cached frame count
\* keeps its value, and some file of the slot was written.
C36_AsStated ==
  [][FailedSave =>
       /\ disk'.moviefile = saveMovie(movie.input_list, context.framecount)
       /\ BeforeReply(io', "saveMovie")
       /\ context.ss_ram => (disk'.pagemap /\ disk'.pages /\ BeforeReply(io', "ofstream"))
       /\ ss'.framecount = ss.framecount
       /\ Count(io', "saveMovie") + Count(io', "ofstream") > 0]_vars

\* C36: after a save whose reply is not MSGB_SAVING_SUCCEEDED the cached
\* frame count keeps its value; in a recording mode the companion movie file
\* holds the movie of that attempt, written before the reply; in RAM mode the
\* placeholder files exist, created before the reply; a failed save with
\* NO_RECORDING outside RAM mode writes no file and leaves the slot's files
\* as they were.
C36_FailedSaveKeepsWrites ==
  [][FailedSave =>
       /\ ss'.framecount = ss.framecount
       /\ context.recording # NO_RECORDING =>
            /\ disk'.moviefile = saveMovie(movie.input_list, context.framecount)
            /\ Count(io', "saveMovie") = 1 /\ BeforeReply(io', "saveMovie")
       /\ context.ss_ram =>
            /\ disk'.pagemap /\ disk'.pages
            /\ Count(io', "ofstream") = 2 /\ BeforeReply(io', "ofstream")
       /\ (context.recording = NO_RECORDING /\ ~context.ss_ram) =>
            /\ Count(io', "saveMovie") + Count(io', "ofstream") = 0
            /\ disk' = disk]_vars

\* C36, witness: a failed save at frame 1 left a movie file stamped with
\* frame 1 while the cached frame count is still 0.
C36_Witness ==
  /\ last.op = "save" /\ last.ret # MSGB_SAVING_SUCCEEDED
  /\ context.recording # NO_RECORDING
  /\ context.framecount = 1 /\ ss.framecount = 0
  /\ disk.moviefile = saveMovie(movie.input_list, 1)
  /\ Len(disk.moviefile.input_list) = 1


\* A step is a postLoad that read MSGB_LOADING_SUCCEEDED and then a message
\* that is not the frame/time report.
ErrorAfterSuccess ==
  /\ last'.op = "postLoad"
  /\ Len(Received(io')) = 2
  /\ Received(io')[1] = MSGB_LOADING_SUCCEEDED
  /\ Received(io')[2] # MSGB_FRAMECOUNT_TIME

\* C37: a postLoad that returns ENOLOAD after MSGB_LOADING_SUCCEEDED keeps
\* what the success branch did: MSGN_CONFIG and the configuration were sent,
\* the movie was reloaded from the slot's movie file iff the mode is
\* RECORDING_WRITE or branch is set, and a modified movie had its flag
\* cleared and the rerecord count incremented.  Nothing else of the context
\* changes, nothing is read from a report, and neither an on-screen message
\* nor MSGN_EXPOSE is sent.
C37_SuccessEffectsKept ==
  [][ErrorAfterSuccess =>
       LET reload == context.recording = RECORDING_WRITE \/ last'.branch
           modified == movie.modifiedSinceLastStateLoad
       IN /\ last'.ret = ENOLOAD
          /\ SubSeq(io', 2, 3) = <<SendMessage(MSGN_CONFIG), SendConfig>>
          /\ Count(io', "loadInputs") = IF reload THEN 1 ELSE 0
          /\ movie'.input_list =
               IF reload THEN loadInputs(disk.moviefile, movie.input_list).input_list
               ELSE movie.input_list
          /\ ~movie'.modifiedSinceLastStateLoad
          /\ context' = [context EXCEPT !.rerecord_count =
                           IF modified THEN @ + 1 ELSE @]
          /\ DataRead(io') = <<>>
          /\ ~HasSent(io', MSGN_OSD_MSG)
          /\ ~HasSent(io', MSGN_EXPOSE)]_vars

\* C37, witness: the protocol error came after a modified movie was reloaded
\* from the slot's file: the rerecord count is 1, the flag is cleared, the
\* configuration was sent and no expose signal was.
C37_Witness ==
  /\ last.op = "postLoad" /\ last.ret = ENOLOAD
  /\ Received(io) = <<MSGB_LOADING_SUCCEEDED, MSGB_OTHER>>
  /\ HasSent(io, MSGN_CONFIG)
  /\ Count(io, "loadInputs") = 1
  /\ movie.input_list = disk.moviefile.input_list
  /\ context.rerecord_count = 1
  /\ ~movie.modifiedSinceLastStateLoad
  /\ ~HasSent(io, MSGN_EXPOSE)


\* C38: a postLoad whose first message is not MSGB_LOADING_SUCCEEDED reads
\* no second message, sends no configuration and leaves the movie and the
\* rerecord count alone; the first message is the one checked as the report.
\* If it is MSGB_FRAMECOUNT_TIME the frame counter and the times are read
\* from it, MSGN_EXPOSE is sent once, no on-screen message is sent and 0 is
\* returned; otherwise ENOLOAD is returned and nothing else happens.
C38_FirstMessageAsReport ==
  [][(/\ last'.op = "postLoad"
      /\ Received(io')[1] # MSGB_LOADING_SUCCEEDED) =>
       LET d == DataRead(io') IN
       /\ Len(Received(io')) = 1
       /\ ~HasSent(io', MSGN_CONFIG)
       /\ Count(io', "loadInputs") = 0
       /\ movie' = movie
       /\ context'.rerecord_count = context.rerecord_count
       /\ IF Received(io')[1] = MSGB_FRAMECOUNT_TIME
          THEN /\ Len(d) = 3
               /\ <<d[1].msg, d[2].msg, d[3].msg>> =
                    <<"framecount", "current_time_sec", "current_time_nsec">>
               /\ context' = PostLoadReport(context, d[1].num, <<d[2].num, d[3].num>>)
               /\ context'.framecount = d[1].num
               /\ context'.current_time_sec = d[2].num
               /\ context'.current_time_nsec = d[3].num
               /\ CountSent(io', MSGN_EXPOSE) = 1
               /\ ~HasSent(io', MSGN_OSD_MSG)
               /\ last'.ret = RET_ZERO
          ELSE /\ last'.ret = ENOLOAD
               /\ Len(io') = 1
               /\ context' = context]_vars

\* C38, witness: with on-screen messages enabled, a postLoad whose only
\* message was the report of frame 1 returned 0 and sent the expose signal;
\* the context is at frame 1, the slot's cached frame count at 0.
C38_Witness ==
  /\ last.op = "postLoad" /\ last.ret = RET_ZERO
  /\ Received(io) = <<MSGB_FRAMECOUNT_TIME>>
  /\ context.osd_messages
  /\ context.framecount = 1 /\ ss.framecount = 0
  /\ HasSent(io, MSGN_EXPOSE)
  /\ ~HasSent(io, MSGN_OSD_MSG)

====
